---- MODULE Spec2Model ----
(***************************************************************************)
(* A model of the request orchestration layer of wayback-mcp-server: the   *)
(* sliding-window RateLimiter, WaybackClient.withRetry, the persisted      *)
(* Cache and the AvailabilityApi built on them.  Times are milliseconds.   *)
(***************************************************************************)
EXTENDS Integers, Sequences, FiniteSets, TLC

\* ------------------------------------------------------------ bounds
\* How many half seconds may pass, before and after the one jump of a default
\* TTL, in a run of SpecCache.
MaxHalfSeconds == 3
\* Number of parameter names of the objects generateKey is applied to.
MaxParams == 2
\* Length of the script of answers of the simulated upstream (its last answer
\* is repeated from then on), and number of withRetry calls in one run.
MaxScript == 3
MaxRetryCalls == 2
\* By how many calls the RateLimiter.acquire calls of one run exceed the
\* smallest maxRequests among the categories the run uses.
MaxOver == 2
\* SpecAvail: the longest list of URLs one checkBulkAvailability call is given
MaxUrls == 2
\* SpecTimeline: the longest snapshot listing getChangesTimeline is given
MaxSnapshots == 3
MaxRows == 3
\* Idle time that may pass in one step of the clock (ms), and how many such
\* steps a run may take.
Tick == 25000
MaxTicks == 3

VARIABLES
  now,        \* Date.now()
  requests,   \* RateLimiter.requests: category -> timestamps (a Map: lazily filled)
  admissions, \* history: category -> every timestamp acquire has recorded for it
  acq,        \* the acquire calls issued so far: endpoint, position, timer
  workload,   \* the endpoint identifiers the callers of this run use
  upstream,   \* the simulated upstream: request -> the responses it answers, in order
  served,     \* request -> how many responses the upstream has answered
  rt,         \* the withRetry call in progress: position, attempt, lastError, history
  cache,      \* the Cache: store, initialized, and the persisted document (disk)
  cres,       \* the last Cache operation: name, key, what it returned or raised
  lastSet,    \* history: key -> the value, ttl and time of the last set since a delete
  kin,        \* the inputs of generateKey under test: a prefix and two parameter objects
  kout,       \* the keys generateKey returned for them
  av,         \* the checkBulkAvailability call in progress: position, results, history
  inv         \* the one-step operation under test: its name, arguments and result

vars == <<now, requests, admissions, acq, workload, upstream, served, rt,
          cache, cres, lastSet, kin, kout, av, inv>>
cacheVars == <<cache, cres, lastSet, kin, kout>>
rlVars == <<requests, admissions>>
retryVars == <<upstream, served, rt>>

\* ------------------------------------------------------- RateLimiter
Categories == {"availability", "cdx", "content", "default"}

RATE_LIMITS ==
  [c \in Categories |->
     CASE c = "availability" -> [maxRequests |-> 15, windowMs |-> 60 * 1000]
       [] c = "cdx"          -> [maxRequests |-> 10, windowMs |-> 60 * 1000]
       [] c = "content"      -> [maxRequests |-> 5,  windowMs |-> 60 * 1000]
       [] OTHER              -> [maxRequests |-> 10, windowMs |-> 60 * 1000]]

\* An endpoint identifier, as far as getCategory reads it: which of the three
\* substrings it includes.
EndpointIds == [available : BOOLEAN, cdx : BOOLEAN, web : BOOLEAN]

EpOf(a, c, w) == [available |-> a, cdx |-> c, web |-> w]

EpAvailable == EpOf(TRUE, FALSE, FALSE)
EpCdx == EpOf(FALSE, TRUE, FALSE)
EpWeb == EpOf(FALSE, FALSE, TRUE)
EpOther == EpOf(FALSE, FALSE, FALSE)

\* Mutant: the availability test looks for a substring the callers' identifier
\* 'available' does not contain.
getCategoryAvailability(endpoint) ==
  IF endpoint.cdx THEN "cdx"
  ELSE IF endpoint.web THEN "content"
  ELSE "default"

getCategory(endpoint) ==
  IF endpoint.available THEN "availability"
  ELSE IF endpoint.cdx THEN "cdx"
  ELSE IF endpoint.web THEN "content"
  ELSE "default"

\* record.timestamps.filter(ts => ts > now - config.windowMs)
Prune(timestamps, t, config) ==
  LET keep(ts) == ts > t - config.windowMs IN SelectSeq(timestamps, keep)

\* Mutant: the limit test off by one.
AtLimitOffByOne(timestamps, config) == Len(timestamps) > config.maxRequests

\* record.timestamps.length >= config.maxRequests
AtLimit(timestamps, config) == Len(timestamps) >= config.maxRequests

\* oldestTimestamp + config.windowMs - now
WaitTime(timestamps, t, config) == timestamps[1] + config.windowMs - t

\* this.requests.get(category) || { timestamps: [] }
RecordOf(reqs, category) ==
  IF category \in DOMAIN reqs THEN reqs[category] ELSE << >>

MapSet(m, k, v) == [x \in DOMAIN m \cup {k} |-> IF x = k THEN v ELSE m[x]]

\* Mutant: the limit is tested on the timestamps of all categories together.
acquireAllCounted(reqs, endpoint, t) ==
  LET category == getCategory(endpoint)
      config == RATE_LIMITS[category]
      pruned == Prune(RecordOf(reqs, category), t, config)
      all == Prune(RecordOf(reqs, "availability") \o RecordOf(reqs, "cdx")
                     \o RecordOf(reqs, "content") \o RecordOf(reqs, "default"),
                   t, config)
      wait == IF AtLimit(all, config) THEN WaitTime(all, t, config) ELSE 0
  IN IF AtLimit(all, config) /\ wait > 0
     THEN [admitted |-> FALSE,
           requests |-> MapSet(reqs, category, pruned),
           wakeAt |-> t + wait]
     ELSE [admitted |-> TRUE,
           requests |-> MapSet(reqs, category, Append(pruned, t)),
           wakeAt |-> t]

\* One synchronous run of acquire(endpoint) at time t, up to its await or its
\* return: whether it was admitted, the Map it leaves, and the timer it set.
acquire(reqs, endpoint, t) ==
  LET category == getCategory(endpoint)
      config == RATE_LIMITS[category]
      pruned == Prune(RecordOf(reqs, category), t, config)
      wait == IF AtLimit(pruned, config) THEN WaitTime(pruned, t, config) ELSE 0
  IN IF AtLimit(pruned, config) /\ wait > 0
     THEN [admitted |-> FALSE,
           \* the filter assigned record.timestamps of the stored record
           requests |-> MapSet(reqs, category, pruned),
           wakeAt |-> t + wait]
     ELSE [admitted |-> TRUE,
           requests |-> MapSet(reqs, category, Append(pruned, t)),
           wakeAt |-> t]

Sleepers == {i \in DOMAIN acq : acq[i].st = "sleeping"}

Min(S) == CHOOSE x \in S : \A y \in S : x <= y

\* What an acquire call is once its synchronous run r has ended.
CallAfter(endpoint, r, slept) ==
  [endpoint |-> endpoint,
   st |-> IF r.admitted THEN "admitted" ELSE "sleeping",
   wakeAt |-> IF r.admitted THEN 0 ELSE r.wakeAt,
   slept |-> slept \/ ~r.admitted]

\* record.timestamps.push(now), as the history sees it
Recorded(adm, endpoint, r, t) ==
  IF r.admitted
    THEN [adm EXCEPT ![getCategory(endpoint)] = Append(@, t)]
    ELSE adm

\* Mutant: the timer's continuation returns without calling acquire again.
ResumeNoRecheck(i) ==
  /\ acq' = [acq EXCEPT ![i].st = "returned", ![i].wakeAt = 0]
  /\ UNCHANGED <<requests, admissions>>

\* The continuation of the timer of a suspended call: return this.acquire(endpoint)
Resume(i) ==
  LET r == acquire(requests, acq[i].endpoint, now) IN
    /\ requests' = r.requests
    /\ acq' = [acq EXCEPT ![i] = CallAfter(acq[i].endpoint, r, TRUE)]
    /\ admissions' = Recorded(admissions, acq[i].endpoint, r, now)

\* How many acquire calls the callers of a run issue.
Budget(w) ==
  Min({RATE_LIMITS[getCategory(e)].maxRequests : e \in w}) + MaxOver

\* A caller invokes RateLimiter.acquire(endpoint).
Call(endpoint) ==
  /\ endpoint \in workload
  /\ Len(acq) < Budget(workload)
  /\ LET r == acquire(requests, endpoint, now) IN
       /\ requests' = r.requests
       /\ acq' = Append(acq, CallAfter(endpoint, r, FALSE))
       /\ admissions' = Recorded(admissions, endpoint, r, now)
  /\ UNCHANGED <<now, workload, av, inv, retryVars, cacheVars>>

\* The timer of a suspended call has expired and its callback runs.
Wake(i) ==
  /\ i \in Sleepers
  /\ now >= acq[i].wakeAt
  /\ Resume(i)
  /\ UNCHANGED <<now, workload, av, inv, retryVars, cacheVars>>

\* Time passes with nothing to run.
Elapse ==
  /\ now + Tick <= MaxTicks * Tick
  /\ now' = now + Tick
  /\ UNCHANGED <<requests, admissions, acq, workload, av, inv, retryVars, cacheVars>>

\* Time passes up to the next timer, when no expired timer is left to run.
TimerAdvance ==
  /\ Sleepers # {}
  /\ \A i \in Sleepers : acq[i].wakeAt > now
  /\ now' = Min({acq[i].wakeAt : i \in Sleepers})
  /\ UNCHANGED <<requests, admissions, acq, workload, av, inv, retryVars, cacheVars>>

\* ------------------------------------------------ WaybackClient.withRetry
\* What the upstream answers to one request: an HTTP status and a body, or no
\* answer at all (status 0: the transport fails).
Resp(status, body) == [status |-> status, body |-> body]
Json(doc) == [parses |-> TRUE, empty |-> FALSE, doc |-> doc]
Garbage == [parses |-> FALSE, empty |-> FALSE, doc |-> "garbage"]
EmptyText == [parses |-> FALSE, empty |-> TRUE, doc |-> ""]
NoAnswer == Resp(0, EmptyText)

\* The values a rejected promise carries.
HttpError(status) == [kind |-> "http", code |-> "", status |-> status]
NetworkError == [kind |-> "Error", code |-> "fetch failed", status |-> 0]
SyntaxError == [kind |-> "Error", code |-> "SyntaxError", status |-> 0]
WaybackApiError(code, status) ==
  [kind |-> "WaybackApiError", code |-> code, status |-> status]

Return(v) == [tag |-> "return", value |-> v]
Throw(e) == [tag |-> "throw", value |-> e]

\* response.ok
ResponseOk(status) == status >= 200 /\ status <= 299

\* WaybackClient.fetch
fetch(resp) ==
  IF resp.status = 0 THEN Throw(NetworkError)
  ELSE IF ~ResponseOk(resp.status) THEN Throw(HttpError(resp.status))
  ELSE Return(resp)

\* WaybackClient.fetchJson: response.json() rejects on a body that is no JSON
fetchJson(resp) ==
  LET r == fetch(resp) IN
    IF r.tag = "throw" THEN r
    ELSE IF ~resp.body.parses THEN Throw(SyntaxError)
    ELSE Return(resp.body.doc)

\* The operation of checkCdxFallback: fetch, text, JSON.parse with [] for an
\* empty or unparsable body.
cdxFallbackOperation(resp) ==
  LET r == fetch(resp) IN
    IF r.tag = "throw" THEN r
    ELSE IF resp.body.empty \/ ~resp.body.parses THEN Return(<< >>)
    ELSE Return(resp.body.doc)

\* The operation of getSiteUrls: fetch, text, [] for a blank body, JSON.parse
\* or PARSE_ERROR.  A parsed document is kept with what Array.isArray says of it.
siteUrlsOperation(resp) ==
  LET r == fetch(resp) IN
    IF r.tag = "throw" THEN r
    ELSE IF resp.body.empty THEN Return([isArray |-> TRUE, items |-> << >>])
    ELSE IF ~resp.body.parses THEN Throw(WaybackApiError("PARSE_ERROR", 0))
    ELSE Return(resp.body.doc)

\* WaybackClient.fetchTextWithFinalUrl as getSnapshotContent uses it: fetch,
\* then the text of the body and the URL the redirects ended at.
fetchTextWithFinalUrl(resp) ==
  LET r == fetch(resp) IN
    IF r.tag = "throw" THEN r
    ELSE Return([text |-> resp.body.doc.text, finalUrl |-> resp.body.doc.finalUrl])

\* The operation closure a caller hands to withRetry, applied to the answer.
Operation(op, resp) ==
  IF op = "cdxFallback" THEN cdxFallbackOperation(resp)
  ELSE IF op = "content" THEN fetchTextWithFinalUrl(resp)
  ELSE IF op \in {"siteUrls", "snapshots"} THEN siteUrlsOperation(resp)
  ELSE fetchJson(resp)

\* The answer the simulated upstream gives to the next request on key k: its
\* script in order, the last answer repeated from then on.
AnswerAt(k, n) ==
  IF n <= Len(upstream[k]) THEN upstream[k][n] ELSE upstream[k][Len(upstream[k])]

Answer(k) == AnswerAt(k, served[k] + 1)

\* 'status' in error
isHttpError(error) == error.kind = "http"

Pow2(n) == 2 ^ n

\* Mutant: 404 handled as any other server-side failure (retried with backoff).
CatchNotFoundRetried(error, attempt, maxRetries) ==
  IF isHttpError(error) /\ (error.status = 429 \/ error.status = 503)
    THEN [act |-> "sleep", ms |-> Pow2(attempt) * 2000, error |-> error]
  ELSE IF isHttpError(error)
    THEN [act |-> "throw", ms |-> 0,
          error |-> WaybackApiError("API_ERROR", error.status)]
  ELSE IF attempt < maxRetries - 1
    THEN [act |-> "sleep", ms |-> Pow2(attempt) * 1000, error |-> error]
  ELSE [act |-> "next", ms |-> 0, error |-> error]

\* Mutant: the backoff of 429/503 on the 1000 ms base of the other retries.
CatchBase1000(error, attempt, maxRetries) ==
  IF isHttpError(error) /\ (error.status = 429 \/ error.status = 503)
    THEN [act |-> "sleep", ms |-> Pow2(attempt) * 1000, error |-> error]
  ELSE IF isHttpError(error) /\ error.status = 404
    THEN [act |-> "throw", ms |-> 0,
          error |-> WaybackApiError("NOT_FOUND", error.status)]
  ELSE IF isHttpError(error)
    THEN [act |-> "throw", ms |-> 0,
          error |-> WaybackApiError("API_ERROR", error.status)]
  ELSE IF attempt < maxRetries - 1
    THEN [act |-> "sleep", ms |-> Pow2(attempt) * 1000, error |-> error]
  ELSE [act |-> "next", ms |-> 0, error |-> error]

\* Mutant: 429/503 retried like the other server errors: no sleep after the
\* last attempt, which throws API_ERROR.
CatchBudgetedBackoff(error, attempt, maxRetries) ==
  IF isHttpError(error) /\ error.status = 404
    THEN [act |-> "throw", ms |-> 0,
          error |-> WaybackApiError("NOT_FOUND", error.status)]
  ELSE IF isHttpError(error) /\ (error.status = 429 \/ error.status = 503)
          /\ attempt < maxRetries - 1
    THEN [act |-> "sleep", ms |-> Pow2(attempt) * 2000, error |-> error]
  ELSE IF isHttpError(error) /\ error.status >= 500 /\ attempt < maxRetries - 1
    THEN [act |-> "sleep", ms |-> Pow2(attempt) * 1000, error |-> error]
  ELSE IF isHttpError(error)
    THEN [act |-> "throw", ms |-> 0,
          error |-> WaybackApiError("API_ERROR", error.status)]
  ELSE IF attempt < maxRetries - 1
    THEN [act |-> "sleep", ms |-> Pow2(attempt) * 1000, error |-> error]
  ELSE [act |-> "next", ms |-> 0, error |-> error]

\* Mutant: a server error retried after a constant 1000 ms.
CatchServerErrorFlat(error, attempt, maxRetries) ==
  IF isHttpError(error) /\ (error.status = 429 \/ error.status = 503)
    THEN [act |-> "sleep", ms |-> Pow2(attempt) * 2000, error |-> error]
  ELSE IF isHttpError(error) /\ error.status = 404
    THEN [act |-> "throw", ms |-> 0,
          error |-> WaybackApiError("NOT_FOUND", error.status)]
  ELSE IF isHttpError(error) /\ error.status >= 500 /\ attempt < maxRetries - 1
    THEN [act |-> "sleep", ms |-> 1000, error |-> error]
  ELSE IF isHttpError(error)
    THEN [act |-> "throw", ms |-> 0,
          error |-> WaybackApiError("API_ERROR", error.status)]
  ELSE IF attempt < maxRetries - 1
    THEN [act |-> "sleep", ms |-> Pow2(attempt) * 1000, error |-> error]
  ELSE [act |-> "next", ms |-> 0, error |-> error]

\* Mutant: every HTTP error but 404 retried with backoff while attempts remain.
CatchOtherStatusRetried(error, attempt, maxRetries) ==
  IF isHttpError(error) /\ (error.status = 429 \/ error.status = 503)
    THEN [act |-> "sleep", ms |-> Pow2(attempt) * 2000, error |-> error]
  ELSE IF isHttpError(error) /\ error.status = 404
    THEN [act |-> "throw", ms |-> 0,
          error |-> WaybackApiError("NOT_FOUND", error.status)]
  ELSE IF isHttpError(error) /\ attempt < maxRetries - 1
    THEN [act |-> "sleep", ms |-> Pow2(attempt) * 1000, error |-> error]
  ELSE IF isHttpError(error)
    THEN [act |-> "throw", ms |-> 0,
          error |-> WaybackApiError("API_ERROR", error.status)]
  ELSE IF attempt < maxRetries - 1
    THEN [act |-> "sleep", ms |-> Pow2(attempt) * 1000, error |-> error]
  ELSE [act |-> "next", ms |-> 0, error |-> error]

\* Mutant: an error without status is followed by a sleep on the last attempt too.
CatchNoStatusSleepsLast(error, attempt, maxRetries) ==
  IF isHttpError(error) /\ (error.status = 429 \/ error.status = 503)
    THEN [act |-> "sleep", ms |-> Pow2(attempt) * 2000, error |-> error]
  ELSE IF isHttpError(error) /\ error.status = 404
    THEN [act |-> "throw", ms |-> 0,
          error |-> WaybackApiError("NOT_FOUND", error.status)]
  ELSE IF isHttpError(error) /\ error.status >= 500 /\ attempt < maxRetries - 1
    THEN [act |-> "sleep", ms |-> Pow2(attempt) * 1000, error |-> error]
  ELSE IF isHttpError(error)
    THEN [act |-> "throw", ms |-> 0,
          error |-> WaybackApiError("API_ERROR", error.status)]
  ELSE [act |-> "sleep", ms |-> Pow2(attempt) * 1000, error |-> error]

\* The catch block of withRetry: sleep and continue, throw, or fall out of the
\* block (the loop then goes on to its next iteration without a sleep).
Catch(error, attempt, maxRetries) ==
  IF isHttpError(error)
    THEN IF error.status = 429 \/ error.status = 503
           THEN [act |-> "sleep", ms |-> Pow2(attempt) * 2000, error |-> error]
         ELSE IF error.status = 404
           THEN [act |-> "throw", ms |-> 0,
                 error |-> WaybackApiError("NOT_FOUND", error.status)]
         ELSE IF error.status >= 500 /\ attempt < maxRetries - 1
           THEN [act |-> "sleep", ms |-> Pow2(attempt) * 1000, error |-> error]
         ELSE [act |-> "throw", ms |-> 0,
               error |-> WaybackApiError("API_ERROR", error.status)]
  ELSE IF attempt < maxRetries - 1
    THEN [act |-> "sleep", ms |-> Pow2(attempt) * 1000, error |-> error]
  ELSE [act |-> "next", ms |-> 0, error |-> error]

\* withRetry(operation, endpoint): maxRetries = 3
DefaultMaxRetries == 3

\* No withRetry call in progress.
NullError == [kind |-> "null", code |-> "", status |-> 0]
NoResult == [tag |-> "none", value |-> NullError]

RtIdle ==
  [pc |-> "idle", endpoint |-> EpOther, op |-> "none", key |-> "none",
   maxRetries |-> 0, attempt |-> 0, lastError |-> NullError, wakeAt |-> 0,
   log |-> << >>, result |-> NoResult, call |-> 0]

\* A caller enters withRetry(operation, endpoint): let lastError = null; attempt = 0
RtEnter(op, key, endpoint) ==
  [RtIdle EXCEPT !.pc = "acquire", !.endpoint = endpoint, !.op = op,
                 !.key = key, !.maxRetries = DefaultMaxRetries,
                 !.call = rt.call + 1]

\* Mutant: the rate limiter is asked once per call, before the loop.
RtNextAttemptNoAcquire(r) ==
  IF r.attempt + 1 < r.maxRetries
    THEN [r EXCEPT !.pc = "invoke", !.attempt = r.attempt + 1]
    ELSE [r EXCEPT !.pc = "done", !.attempt = r.attempt + 1,
                   !.result = Throw(IF r.lastError = NullError
                                      THEN [kind |-> "Error",
                                            code |-> "Unknown error occurred",
                                            status |-> 0]
                                      ELSE r.lastError)]

\* for (...; attempt < maxRetries; attempt++) after iteration `attempt` ended
\* without return or throw; past the loop: throw lastError || new Error(...)
RtNextAttempt(r) ==
  IF r.attempt + 1 < r.maxRetries
    THEN [r EXCEPT !.pc = "acquire", !.attempt = r.attempt + 1]
    ELSE [r EXCEPT !.pc = "done", !.attempt = r.attempt + 1,
                   !.result = Throw(IF r.lastError = NullError
                                      THEN [kind |-> "Error",
                                            code |-> "Unknown error occurred",
                                            status |-> 0]
                                      ELSE r.lastError)]

\* await this.rateLimiter.acquire(endpoint), run at time t
RtAcquireAt(t) ==
  LET r == acquire(requests, rt.endpoint, t) IN
    /\ now' = t
    /\ requests' = r.requests
    /\ admissions' = Recorded(admissions, rt.endpoint, r, t)
    /\ rt' = IF r.admitted
               THEN [rt EXCEPT !.pc = "invoke", !.log = Append(@, <<"acquire", 0, 0>>)]
               ELSE [rt EXCEPT !.pc = "limited", !.wakeAt = r.wakeAt]
    /\ UNCHANGED <<acq, workload, av, inv, upstream, served, cacheVars>>

RetryAcquire ==
  /\ rt.pc = "acquire"
  /\ RtAcquireAt(now)

\* The rate limiter's timer expires: return this.acquire(endpoint)
RetryLimiterWake ==
  /\ rt.pc = "limited"
  /\ RtAcquireAt(IF rt.wakeAt > now THEN rt.wakeAt ELSE now)

\* return await operation(), and the catch block when it rejects
RetryInvoke ==
  /\ rt.pc = "invoke"
  /\ LET out == Operation(rt.op, Answer(rt.key))
         logged == Append(rt.log,
                          <<"invoke", Answer(rt.key).status, served[rt.key] + 1>>)
         c == Catch(out.value, rt.attempt, rt.maxRetries)
     IN rt' =
          IF out.tag = "return"
            THEN [rt EXCEPT !.pc = "done", !.log = logged, !.result = out]
          ELSE IF c.act = "throw"
            THEN [rt EXCEPT !.pc = "done", !.log = logged,
                            !.lastError = out.value, !.result = Throw(c.error)]
          ELSE IF c.act = "sleep"
            THEN [rt EXCEPT !.pc = "backoff", !.log = logged,
                            !.lastError = out.value, !.wakeAt = now + c.ms]
          ELSE RtNextAttempt([rt EXCEPT !.log = logged, !.lastError = out.value])
  /\ served' = [served EXCEPT ![rt.key] = @ + 1]
  /\ UNCHANGED <<now, requests, admissions, acq, workload, av, inv, upstream, cacheVars>>

\* await this.sleep(waitTime) ends; continue
RetryBackoffDone ==
  /\ rt.pc = "backoff"
  /\ now' = rt.wakeAt
  /\ rt' = RtNextAttempt([rt EXCEPT !.log = Append(@, <<"sleep", rt.wakeAt - now, 0>>)])
  /\ UNCHANGED <<requests, admissions, acq, workload, av, inv, upstream, served, cacheVars>>

RetrySteps ==
  \/ RetryAcquire
  \/ RetryLimiterWake
  \/ RetryInvoke
  \/ RetryBackoffDone

\* -------------------------------------------------------------- Cache
\* JSON.stringify of a value the program caches, and JSON.parse of a stored
\* string: a string is the text of a document, or text that is no JSON.
JsonStringify(v) == [text |-> "json", doc |-> v]
CorruptData == [text |-> "corrupt", doc |-> [t |-> "null", v |-> "null"]]
JsonParses(data) == data.text = "json"
JsonParse(data) == data.doc

\* The values of the program: null and undefined, and a document.
JsNull == [t |-> "null", v |-> "null"]
JsUndefined == [t |-> "undefined", v |-> "undefined"]
Val(x) == [t |-> "val", v |-> x]

NotInitialized ==
  Throw([kind |-> "Error", code |-> "Cache not initialized", status |-> 0])

\* The state of a Cache after construction, with the document it finds on disk.
NewCache(disk) == [store |-> << >>, initialized |-> FALSE, disk |-> disk]
\* writable tells whether writeFileSync on the path succeeds.
NoFile == [exists |-> FALSE, readable |-> FALSE, doc |-> << >>, writable |-> TRUE]
UnreadableFile == [exists |-> TRUE, readable |-> FALSE, doc |-> << >>, writable |-> TRUE]
FileOf(doc) == [exists |-> TRUE, readable |-> TRUE, doc |-> doc, writable |-> TRUE]
ReadOnly(disk) == [disk EXCEPT !.writable = FALSE]

\* Cache.save: writeFileSync(this.filePath, JSON.stringify(this.store)) in a
\* try block whose catch logs the failure and returns.
save(c) == IF c.disk.writable THEN [c EXCEPT !.disk = FileOf(c.store)] ELSE c

\* delete this.store[key]
Without(store, key) == [k \in DOMAIN store \ {key} |-> store[k]]

\* Mutant: an entry expires one TTL unit (a second) late.
ExpiredLate(entry, t) == entry.timestamp + (entry.ttl + 1) * 1000 < t

\* entry.timestamp + entry.ttl * 1000 < Date.now()
Expired(entry, t) == entry.timestamp + entry.ttl * 1000 < t

\* Mutant: delete without ensureInitialized.
cacheDeleteUnchecked(c, key) ==
  [cache |-> save([c EXCEPT !.store = Without(c.store, key)]),
   out |-> Return(JsUndefined)]

\* Cache.delete
cacheDelete(c, key) ==
  IF ~c.initialized THEN [cache |-> c, out |-> NotInitialized]
  ELSE [cache |-> save([c EXCEPT !.store = Without(c.store, key)]),
        out |-> Return(JsUndefined)]

\* Mutant: an entry that cannot be parsed reads as absent and is kept.
cacheGetKeepsCorrupt(c, key, t) ==
  IF ~c.initialized THEN [cache |-> c, out |-> NotInitialized]
  ELSE IF key \notin DOMAIN c.store THEN [cache |-> c, out |-> Return(JsNull)]
  ELSE IF Expired(c.store[key], t)
    THEN [cache |-> cacheDelete(c, key).cache, out |-> Return(JsNull)]
  ELSE IF ~JsonParses(c.store[key].data)
    THEN [cache |-> c, out |-> Return(JsNull)]
  ELSE [cache |-> c, out |-> Return(JsonParse(c.store[key].data))]

\* Cache.get
cacheGet(c, key, t) ==
  IF ~c.initialized THEN [cache |-> c, out |-> NotInitialized]
  ELSE IF key \notin DOMAIN c.store THEN [cache |-> c, out |-> Return(JsNull)]
  ELSE IF Expired(c.store[key], t)
    THEN [cache |-> cacheDelete(c, key).cache, out |-> Return(JsNull)]
  ELSE IF ~JsonParses(c.store[key].data)
    THEN [cache |-> cacheDelete(c, key).cache, out |-> Return(JsNull)]
  ELSE [cache |-> c, out |-> Return(JsonParse(c.store[key].data))]

\* ttl || 3600
DefaultTtl == 3600

\* Cache.set
cacheSet(c, key, data, ttl, t) ==
  IF ~c.initialized THEN [cache |-> c, out |-> NotInitialized]
  ELSE [cache |-> save([c EXCEPT !.store =
                          MapSet(c.store, key,
                                 [data |-> JsonStringify(data),
                                  timestamp |-> t,
                                  ttl |-> IF ttl = 0 THEN DefaultTtl ELSE ttl])]),
        out |-> Return(JsUndefined)]

\* Mutant: clear empties the store in memory only.
cacheClearUnsaved(c) ==
  IF ~c.initialized THEN [cache |-> c, out |-> NotInitialized]
  ELSE [cache |-> [c EXCEPT !.store = << >>], out |-> Return(JsUndefined)]

\* Cache.clear
cacheClear(c) ==
  IF ~c.initialized THEN [cache |-> c, out |-> NotInitialized]
  ELSE [cache |-> save([c EXCEPT !.store = << >>]), out |-> Return(JsUndefined)]

\* Mutant: cleanup sweeps the store in memory and never saves.
cacheCleanupUnsaved(c, t) ==
  IF ~c.initialized THEN [cache |-> c, out |-> NotInitialized]
  ELSE LET live == {k \in DOMAIN c.store : ~Expired(c.store[k], t)}
       IN [cache |-> [c EXCEPT !.store = [k \in live |-> c.store[k]]],
           out |-> Return(JsUndefined)]

\* Cache.cleanup
cacheCleanup(c, t) ==
  IF ~c.initialized THEN [cache |-> c, out |-> NotInitialized]
  ELSE LET live == {k \in DOMAIN c.store : ~Expired(c.store[k], t)}
           swept == [c EXCEPT !.store = [k \in live |-> c.store[k]]]
       IN [cache |-> IF live # DOMAIN c.store THEN save(swept) ELSE c,
           out |-> Return(JsUndefined)]

\* The store Cache.initialize holds before its cleanup: the parsed file when
\* there is one, {} when it cannot be read or parsed, the store as it was
\* when there is no file.
loadStore(c) ==
  IF ~c.disk.exists THEN c.store
  ELSE IF c.disk.readable THEN c.disk.doc
  ELSE << >>

\* Cache.initialize
cacheInitialize(c, t) ==
  cacheCleanup([c EXCEPT !.store = loadStore(c), !.initialized = TRUE], t)

\* Cache.close
cacheClose(c) ==
  [cache |-> [(IF c.initialized THEN save(c) ELSE c) EXCEPT !.initialized = FALSE],
   out |-> Return(JsUndefined)]

\* A parameter object is its properties in insertion order: a sequence of
\* <<name, value>> with distinct names.  The names, in the order of
\* Object.keys(params).sort():
SortedNames ==
  <<"collapse", "extractMetadata", "from", "granularity", "includeCaptureCounts",
    "includeSubdomains", "limit", "matchType", "sortBy", "statusFilter",
    "timestamp", "to", "url">>
Rank(name) == CHOOSE i \in 1..Len(SortedNames) : SortedNames[i] = name

\* A string and a number, each by its text.
Str(x) == [t |-> "string", v |-> x]
Num(x) == [t |-> "number", v |-> x]
Bool(x) == [t |-> "boolean", v |-> IF x THEN "true" ELSE "false"]

\* JSON.stringify of a string or a number: the text of the property value.
JsonOfPrimitive(value) == [quoted |-> value.t = "string", text |-> value.v]

Names(params) == {params[i][1] : i \in DOMAIN params}
ValueOf(params, name) ==
  params[CHOOSE i \in DOMAIN params : params[i][1] = name][2]

\* Object.keys(params).sort()
RECURSIVE SortNames(_)
SortNames(S) ==
  IF S = {} THEN << >>
  ELSE LET first == CHOOSE n \in S : \A m \in S : Rank(n) <= Rank(m)
       IN <<first>> \o SortNames(S \ {first})

\* Mutant: the keys as Object.keys gives them, in insertion order.
KeyOrderUnsorted(params) == [i \in DOMAIN params |-> params[i][1]]

KeyOrder(params) == SortNames(Names(params))

\* Cache.generateKey: `${prefix}:${JSON.stringify(sortedParams)}`
generateKey(prefix, params) ==
  LET keys == KeyOrder(params)
      defined(name) == ValueOf(params, name) # JsUndefined
      kept == SelectSeq(keys, defined)
  IN [prefix |-> prefix,
      json |-> [i \in DOMAIN kept |->
                  <<kept[i], JsonOfPrimitive(ValueOf(params, kept[i]))>>]]

\* ------------------------------------------------------ AvailabilityApi
\* A URL string of the site example.com: with or without the www. prefix,
\* with or without the trailing slash; a string that is no URL; and the
\* absent value (null, undefined).
UrlString(www, slash) == [s |-> "url", www |-> www, slash |-> slash]
NotAUrl == [s |-> "text", www |-> FALSE, slash |-> FALSE]
NoUrl == [s |-> "none", www |-> FALSE, slash |-> FALSE]

\* AvailabilityApi.getWwwVariant: new URL(url) throws on a string that is no
\* URL; toString() of a URL with an empty path ends with "/".
getWwwVariant(url) ==
  IF url.s # "url" THEN NoUrl
  ELSE UrlString(~url.www, TRUE)

\* url.replace(/^https?:\/\//, '').replace(/\/$/, '')
normalizedUrl(url) == [url EXCEPT !.slash = FALSE]

\* The requests the two withRetry operations send.
AvailabilityRequest(url) == [api |-> "available", url |-> url]
CdxRequest(url) == [api |-> "cdx", url |-> normalizedUrl(url)]

\* A Wayback timestamp is the sequence of its characters.
\* formatTimestamp: YYYY-MM-DD of a timestamp of 8 characters or more
formatTimestamp(timestamp) ==
  IF Len(timestamp) < 8 THEN timestamp
  ELSE SubSeq(timestamp, 1, 4) \o <<"-">> \o SubSeq(timestamp, 5, 6)
         \o <<"-">> \o SubSeq(timestamp, 7, 8)

\* AvailabilityResponse: closestSnapshot and checkedVariant are optional.
NoSnapshot ==
  [present |-> FALSE, url |-> << >>, timestamp |-> << >>,
   formattedDate |-> << >>, status |-> ""]
closestSnapshot(url, timestamp, status) ==
  [present |-> TRUE, url |-> url, timestamp |-> timestamp,
   formattedDate |-> formatTimestamp(timestamp), status |-> status]
AvailabilityResponse(url, isArchived, snapshot) ==
  [url |-> url, isArchived |-> isArchived,
   archiveOrgUrl |-> <<"https://web.archive.org/web/*/", url>>,
   closestSnapshot |-> snapshot, checkedVariant |-> NoUrl]

\* The document of the Availability API: archived_snapshots.closest or none.
NoClosest ==
  [present |-> FALSE, available |-> FALSE, url |-> << >>,
   timestamp |-> << >>, status |-> ""]
Closest(available, url, timestamp, status) ==
  [present |-> TRUE, available |-> available, url |-> url,
   timestamp |-> timestamp, status |-> status]

\* checkAvailabilityInternal, "Transform response": result is the document
TransformResponse(url, result) ==
  AvailabilityResponse(url, result.present /\ result.available,
                       IF result.present
                         THEN closestSnapshot(result.url, result.timestamp,
                                              result.status)
                         ELSE NoSnapshot)

\* Mutant: a data row is looked for past the second row.
hasDataRowOffByOne(result) == Len(result) > 2

\* Array.isArray(result) && result.length > 1 (the header row comes first)
hasDataRow(result) == Len(result) > 1

\* checkCdxFallback once its withRetry ended with outcome: the response built
\* from the data row, or null (no row, a row too short, or the catch).
checkCdxFallback(url, outcome) ==
  IF outcome.tag = "throw" THEN JsNull
  ELSE LET result == outcome.value IN
    IF hasDataRow(result) /\ Len(result[2]) >= 2
      THEN LET dataRow == result[2]
               ts == dataRow[1]
               original == dataRow[2]
               statusCode == IF Len(dataRow) >= 3 /\ dataRow[3] # ""
                               THEN dataRow[3] ELSE "200"
               waybackUrl == <<"https://web.archive.org/web/", ts, original>>
           IN Val(AvailabilityResponse(url, TRUE,
                                       closestSnapshot(waybackUrl, ts, statusCode)))
    ELSE JsNull

\* Mutant: the alternate's result is returned as it is, with checkedVariant.
FoundAsVariantUnlabelled(alternateResult, url, alternateUrl) ==
  [alternateResult EXCEPT !.checkedVariant = alternateUrl]

\* checkAvailability: { ...alternateResult, url, archiveOrgUrl, checkedVariant }
FoundAsVariant(alternateResult, url, alternateUrl) ==
  [alternateResult EXCEPT !.url = url,
                          !.archiveOrgUrl = <<"https://web.archive.org/web/*/", url>>,
                          !.checkedVariant = alternateUrl]

CACHE_TTL ==
  [AVAILABILITY |-> 3600, SNAPSHOTS |-> 86400, SNAPSHOT_CONTENT |-> 604800,
   CDX_QUERIES |-> 43200, BULK_CHECK |-> 3600]

\* CACHE_TTL.<name> as an argument of cache.set: a property the object lacks
\* reads as undefined, which Cache.set takes as no ttl (0 here).
TtlOf(name) == IF name \in DOMAIN CACHE_TTL THEN CACHE_TTL[name] ELSE 0

\* No checkBulkAvailability call in progress.
AvIdle ==
  [pc |-> "idle", urls |-> << >>, timestamp |-> JsUndefined,
   checkWwwVariant |-> "true", i |-> 0, results |-> << >>,
   stage |-> "primary", url |-> NoUrl,
   response |-> AvailabilityResponse(NoUrl, FALSE, NoSnapshot),
   built |-> AvailabilityResponse(NoUrl, FALSE, NoSnapshot),
   calls |-> << >>, checks |-> << >>]

\* checkBulkAvailability(urls, timestamp, checkWwwVariant = true) enters its
\* loop: the first checkAvailability calls checkAvailabilityInternal.
checkBulkAvailability(urls, timestamp, checkWwwVariant) ==
  [AvIdle EXCEPT !.pc = "internal", !.urls = urls, !.timestamp = timestamp,
                 !.checkWwwVariant = IF checkWwwVariant = "undefined"
                                       THEN "true" ELSE checkWwwVariant,
                 !.i = 1, !.url = urls[1]]

\* The loop body of checkBulkAvailability after checkAvailability ended with
\* outcome: results.set(url, result), or the catch's entry; the next url.
BulkNext(a, outcome) ==
  LET url == a.urls[a.i]
      entry == IF outcome.tag = "return" THEN outcome.value
               ELSE AvailabilityResponse(url, FALSE, NoSnapshot)
      b == [a EXCEPT !.results = MapSet(@, url, entry),
                     !.checks = Append(@, [url |-> url, outcome |-> outcome,
                                           calls |-> a.calls]),
                     !.calls = << >>]
  IN IF a.i < Len(a.urls)
       THEN [b EXCEPT !.i = a.i + 1, !.pc = "internal", !.stage = "primary",
                      !.url = a.urls[a.i + 1]]
       ELSE [b EXCEPT !.pc = "done"]

\* Mutant: the variant is looked up whatever the primary lookup found.
checkAvailabilityAlwaysVariant(a, r) ==
  LET url == a.urls[a.i]
      alternateUrl == getWwwVariant(url)
  IN IF a.stage = "primary"
       THEN IF a.checkWwwVariant # "false" /\ alternateUrl # NoUrl
              THEN [a EXCEPT !.pc = "internal", !.stage = "alternate",
                             !.url = alternateUrl, !.response = r]
              ELSE BulkNext(a, Return(r))
     ELSE IF r.isArchived
       THEN BulkNext(a, Return(FoundAsVariant(r, url, a.url)))
     ELSE BulkNext(a, Return(a.response))

\* checkAvailability after a checkAvailabilityInternal call returned r
checkAvailability(a, r) ==
  LET url == a.urls[a.i]
      alternateUrl == getWwwVariant(url)
  IN IF a.stage = "primary"
       THEN IF ~r.isArchived /\ a.checkWwwVariant # "false" /\ alternateUrl # NoUrl
              THEN [a EXCEPT !.pc = "internal", !.stage = "alternate",
                             !.url = alternateUrl, !.response = r]
              ELSE BulkNext(a, Return(r))
     ELSE IF r.isArchived
       THEN BulkNext(a, Return(FoundAsVariant(r, url, a.url)))
     ELSE BulkNext(a, Return(a.response))

\* ------------------------------------------------------------ DiffService
\* Math.round(n / d) for d > 0
Round(n, d) == (2 * n + d) \div (2 * d)

\* arraysEqual
arraysEqual(a, b) ==
  Len(a) = Len(b) /\ \A i \in DOMAIN a : a[i] = b[i]

\* DiffService.compareContent: a text is the sequence of its words; the
\* percentage is kept in hundredths; diff tells whether a patch was made.
compareContent(before, after, showDiff) ==
  LET wordsBefore == Len(before)
      wordsAfter == Len(after)
      wordDelta == wordsAfter - wordsBefore
  IN [changed |-> before # after,
      wordCountBefore |-> wordsBefore,
      wordCountAfter |-> wordsAfter,
      wordCountDelta |-> wordDelta,
      percentChange |-> IF wordsBefore > 0
                          THEN Round(wordDelta * 10000, wordsBefore) ELSE 0,
      diff |-> showDiff /\ before # after]

\* DiffService.compareLinks
compareLinks(before, after) ==
  LET beforeHrefs == {before.links[i].href : i \in DOMAIN before.links}
      afterHrefs == {after.links[i].href : i \in DOMAIN after.links}
      external(c) == Cardinality({i \in DOMAIN c.links : c.links[i].isExternal})
      internal(c) == Cardinality({i \in DOMAIN c.links : ~c.links[i].isExternal})
  IN [changed |-> afterHrefs \ beforeHrefs # {} \/ beforeHrefs \ afterHrefs # {},
      addedLinks |-> afterHrefs \ beforeHrefs,
      removedLinks |-> beforeHrefs \ afterHrefs,
      internalDelta |-> internal(after) - internal(before),
      externalDelta |-> external(after) - external(before)]

\* DiffService.compareStructure: schemaTypes is getStructuredDataTypes(structuredData)
compareStructure(before, after) ==
  [changed |-> \/ before.canonicalUrl # after.canonicalUrl
               \/ before.robots # after.robots
               \/ ~arraysEqual(before.schemaTypes, after.schemaTypes),
   schemaMarkupBefore |-> before.schemaTypes,
   schemaMarkupAfter |-> after.schemaTypes,
   canonicalChanged |-> before.canonicalUrl # after.canonicalUrl,
   robotsChanged |-> before.robots # after.robots]

\* One optional property of the changes object.
Property(present, name, value) == IF present THEN name :> value ELSE << >>

\* daysBetween: a timestamp carries the hour parseTimestamp reads from it
daysBetween(timestamp1, timestamp2) ==
  LET diffTime == IF timestamp2.hour >= timestamp1.hour
                    THEN timestamp2.hour - timestamp1.hour
                    ELSE timestamp1.hour - timestamp2.hour
  IN (diffTime + 23) \div 24

\* DiffService.compareSnapshots once both getParsedContent calls returned
compareSnapshots(params, content1, content2) ==
  LET compareAll == IF params.compareElements.t = "undefined" THEN TRUE
                    ELSE "all" \in params.compareElements.v
      includes(e) == compareAll \/ (params.compareElements.t # "undefined"
                                     /\ e \in params.compareElements.v)
      h1Changed == ~arraysEqual(content1.h1, content2.h1)
      h2Changed == ~arraysEqual(content1.h2, content2.h2)
      changes ==
        Property(includes("title") /\ content1.title # content2.title, "title",
                 [changed |-> TRUE, before |-> content1.title, after |-> content2.title])
        @@ Property(includes("description")
                      /\ content1.metaDescription # content2.metaDescription,
                    "metaDescription",
                    [changed |-> TRUE, before |-> content1.metaDescription,
                     after |-> content2.metaDescription])
        @@ Property(includes("headings") /\ (h1Changed \/ h2Changed), "headings",
                    [h1Changed |-> h1Changed, h2Changed |-> h2Changed,
                     before |-> [h1 |-> content1.h1, h2 |-> content1.h2],
                     after |-> [h1 |-> content2.h1, h2 |-> content2.h2]])
        @@ Property(includes("content"), "content",
                    compareContent(content1.textContent, content2.textContent,
                                   params.showDiff # "false"))
        @@ Property(includes("links"), "links", compareLinks(content1, content2))
        @@ Property(includes("structure"), "structure",
                    compareStructure(content1, content2))
  IN [url |-> params.url,
      snapshot1 |-> params.timestamp1,
      snapshot2 |-> params.timestamp2,
      daysBetween |-> daysBetween(params.timestamp1, params.timestamp2),
      hasChanges |-> DOMAIN changes # {},
      changes |-> changes]

\* ------------------------------------------- CdxApi.getChangesTimeline
\* new Date(year, month - 1, day), as a count of days (read in UTC: no
\* daylight-saving shift): the days from 1970-01-01 to the civil date.
parseTimestamp(ts) ==
  LET y == IF ts.month <= 2 THEN ts.year - 1 ELSE ts.year
      era == y \div 400
      yoe == y - era * 400
      mp == IF ts.month > 2 THEN ts.month - 3 ELSE ts.month + 9
      doy == (153 * mp + 2) \div 5 + ts.day - 1
      doe == yoe * 365 + yoe \div 4 - yoe \div 100 + doy
  IN era * 146097 + doe - 719468

\* CdxApi.calculateDaysBetween
calculateDaysBetween(ts1, ts2) ==
  LET d1 == parseTimestamp(ts1)
      d2 == parseTimestamp(ts2)
  IN IF d2 >= d1 THEN d2 - d1 ELSE d1 - d2

\* Mutant: every snapshot is compared with the first of the listing.
RECURSIVE DetectChangesAgainstFirst(_, _)
DetectChangesAgainstFirst(snapshots, i) ==
  IF i > Len(snapshots) THEN << >>
  ELSE (IF i > 1 /\ snapshots[1].digest # snapshots[i].digest
          THEN <<[timestamp |-> snapshots[i].timestamp,
                  previousTimestamp |-> snapshots[1].timestamp,
                  daysSincePrevious |->
                    calculateDaysBetween(snapshots[1].timestamp,
                                         snapshots[i].timestamp),
                  changeType |-> "content",
                  digestBefore |-> snapshots[1].digest,
                  digestAfter |-> snapshots[i].digest]>>
          ELSE << >>)
       \o DetectChangesAgainstFirst(snapshots, i + 1)

\* The loop of getChangesTimeline over the listing: one event for each
\* snapshot whose digest differs from the one before it.
RECURSIVE DetectChanges(_, _)
DetectChanges(snapshots, i) ==
  IF i > Len(snapshots) THEN << >>
  ELSE (IF i > 1 /\ snapshots[i - 1].digest # snapshots[i].digest
          THEN <<[timestamp |-> snapshots[i].timestamp,
                  previousTimestamp |-> snapshots[i - 1].timestamp,
                  daysSincePrevious |->
                    calculateDaysBetween(snapshots[i - 1].timestamp,
                                         snapshots[i].timestamp),
                  changeType |-> "content",
                  digestBefore |-> snapshots[i - 1].digest,
                  digestAfter |-> snapshots[i].digest]>>
          ELSE << >>)
       \o DetectChanges(snapshots, i + 1)

\* Mutant: the final event is kept only if its index is a multiple of 7.
RECURSIVE WeeklyFilterNoLast(_, _)
WeeklyFilterNoLast(events, i) ==
  IF i > Len(events) THEN << >>
  ELSE (IF (i - 1) % 7 = 0 THEN <<events[i]>> ELSE << >>)
       \o WeeklyFilterNoLast(events, i + 1)

\* changeEvents.filter((_, i) => i % 7 === 0 || i === changeEvents.length - 1)
RECURSIVE WeeklyFilter(_, _)
WeeklyFilter(events, i) ==
  IF i > Len(events) THEN << >>
  ELSE (IF (i - 1) % 7 = 0 \/ i = Len(events) THEN <<events[i]>> ELSE << >>)
       \o WeeklyFilter(events, i + 1)

\* reduce((sum, e) => sum + e.daysSincePrevious, 0)
RECURSIVE SumDays(_, _)
SumDays(events, i) ==
  IF i > Len(events) THEN 0
  ELSE events[i].daysSincePrevious + SumDays(events, i + 1)

\* Mutant: the class boundaries taken inclusive.
calculateFrequencyInclusive(sum, n) ==
  IF sum <= 7 * n THEN "very_frequent"
  ELSE IF sum <= 30 * n THEN "frequent"
  ELSE IF sum <= 90 * n THEN "moderate"
  ELSE IF sum <= 180 * n THEN "infrequent"
  ELSE "rare"

\* CdxApi.calculateFrequency of avgDays = sum / n (n > 0)
calculateFrequency(sum, n) ==
  IF sum < 7 * n THEN "very_frequent"
  ELSE IF sum < 30 * n THEN "frequent"
  ELSE IF sum < 90 * n THEN "moderate"
  ELSE IF sum < 180 * n THEN "infrequent"
  ELSE "rare"

\* CdxApi.formatDaysToHuman of days = sum / n: the number and its unit
formatDaysToHuman(sum, n) ==
  IF sum < n THEN <<0, "less than a day">>
  ELSE IF sum < 7 * n THEN <<Round(sum, n), "days">>
  ELSE IF sum < 30 * n THEN <<Round(sum, 7 * n), "weeks">>
  ELSE IF sum < 365 * n THEN <<Round(sum, 30 * n), "months">>
  ELSE <<Round(sum, 365 * n), "years">>

\* CdxApi.findMostActiveMonth: the keys YYYYMM of monthCounts are integer
\* keys, which Object.entries lists in ascending order.
findMostActiveMonth(events) ==
  IF events = << >> THEN <<"N/A">>
  ELSE LET monthOf(i) == events[i].timestamp.year * 100 + events[i].timestamp.month
           months == {monthOf(i) : i \in DOMAIN events}
           count(m) == Cardinality({i \in DOMAIN events : monthOf(i) = m})
           maxMonth == CHOOSE m \in months :
                         \A o \in months :
                           count(o) < count(m) \/ (count(o) = count(m) /\ m <= o)
       IN <<maxMonth \div 100, "-", maxMonth % 100>>

\* Mutant: the mean is the sum over the number of events even when there is
\* none (NaN, which is below no boundary).
getChangesTimelineUnguarded(params, snapshots) ==
  LET changeEvents == DetectChanges(snapshots, 1)
      filteredEvents == IF params.granularity = "weekly"
                          THEN WeeklyFilter(changeEvents, 1) ELSE changeEvents
      sum == SumDays(filteredEvents, 1)
      n == Len(filteredEvents)
  IN [url |-> params.url,
      totalSnapshots |-> Len(snapshots),
      totalChanges |-> Len(filteredEvents),
      changeEvents |-> filteredEvents,
      summary |-> [averageTimeBetweenChanges |->
                     IF n = 0 THEN <<0, "years">> ELSE formatDaysToHuman(sum, n),
                   mostActiveMonth |-> findMostActiveMonth(filteredEvents),
                   changeFrequency |->
                     IF n = 0 THEN "rare" ELSE calculateFrequency(sum, n)]]

\* getChangesTimeline once getSnapshots returned the listing snapshots
getChangesTimeline(params, snapshots) ==
  LET changeEvents == DetectChanges(snapshots, 1)
      filteredEvents == IF params.granularity = "weekly"
                          THEN WeeklyFilter(changeEvents, 1) ELSE changeEvents
      sum == SumDays(filteredEvents, 1)
      n == IF Len(filteredEvents) > 0 THEN Len(filteredEvents) ELSE 1
  IN [url |-> params.url,
      totalSnapshots |-> Len(snapshots),
      totalChanges |-> Len(filteredEvents),
      changeEvents |-> filteredEvents,
      summary |-> [averageTimeBetweenChanges |-> formatDaysToHuman(sum, n),
                   mostActiveMonth |-> findMostActiveMonth(filteredEvents),
                   changeFrequency |-> calculateFrequency(sum, n)]]

\* ------------------------------------------------- CdxApi.getSiteUrls
\* The 14-digit capture timestamps of the simulated index, in ascending
\* order; a.localeCompare(b) on two of them is the order of their positions.
Timestamps == <<"20190101000000", "20200101000000", "20210101000000">>
TsRank(ts) == CHOOSE i \in DOMAIN Timestamps : Timestamps[i] = ts

Max(S) == CHOOSE x \in S : \A y \in S : x >= y

\* Array.prototype.sort with a comparator that subtracts the keys: ascending
\* by key, and stable (equal keys keep their order).
SortBy(seq, keys) ==
  LET pos(i) == 1 + Cardinality({j \in DOMAIN seq :
                                   \/ keys[j] < keys[i]
                                   \/ (keys[j] = keys[i] /\ j < i)})
  IN [p \in DOMAIN seq |-> seq[CHOOSE i \in DOMAIN seq : pos(i) = p]]

\* value || fallback, on strings
OrDefault(value, fallback) == IF value = "" THEN fallback ELSE value

\* Mutant: the key read from the first position of the trailing element.
parseRowsKeyFirst(result) ==
  IF result.isArray /\ Len(result.items) > 0
    THEN LET lastRow == result.items[Len(result.items)]
         IN IF Len(lastRow) = 2 /\ lastRow[1] = ""
              THEN [resumeKey |-> Str(lastRow[1]),
                    rows |-> SubSeq(result.items, 2, Len(result.items) - 1)]
            ELSE [resumeKey |-> JsUndefined,
                  rows |-> SubSeq(result.items, 2, Len(result.items))]
  ELSE [resumeKey |-> JsUndefined, rows |-> << >>]

\* getSiteUrls, "Check for resumeKey in response": result is what withRetry
\* returned, isArray what Array.isArray(result) says of it; every element of
\* an array result is itself an array of strings.
parseRows(result) ==
  IF result.isArray /\ Len(result.items) > 0
    THEN LET lastRow == result.items[Len(result.items)]
         IN IF Len(lastRow) = 2 /\ lastRow[1] = ""
              THEN [resumeKey |-> Str(lastRow[2]),
                    rows |-> SubSeq(result.items, 2, Len(result.items) - 1)]
            ELSE [resumeKey |-> JsUndefined,
                  rows |-> SubSeq(result.items, 2, Len(result.items))]
  ELSE [resumeKey |-> JsUndefined, rows |-> << >>]

\* The indices of the rows that are the first of their URL: the insertion
\* order of urlMap.
RECURSIVE FirstSeen(_, _)
FirstSeen(rows, i) ==
  IF i > Len(rows) THEN << >>
  ELSE IF \E j \in 1..(i - 1) : rows[j][1] = rows[i][1] THEN FirstSeen(rows, i + 1)
  ELSE <<i>> \o FirstSeen(rows, i + 1)

\* Mutant: the aggregated list is left in the insertion order of urlMap.
aggregateByUrlUnsorted(rows) ==
  LET firsts == FirstSeen(rows, 1)
      entry(i) ==
        LET ranks == {TsRank(rows[j][2]) : j \in {k \in DOMAIN rows : rows[k][1] = rows[i][1]}}
            count == Cardinality({k \in DOMAIN rows : rows[k][1] = rows[i][1]})
        IN [url |-> rows[i][1],
            firstCapture |-> Timestamps[Min(ranks)],
            lastCapture |-> Timestamps[Max(ranks)],
            captureCount |-> count,
            statusCode |-> OrDefault(rows[i][3], "200"),
            mimeType |-> OrDefault(rows[i][4], "text/html")]
  IN [urls |-> [k \in DOMAIN firsts |-> entry(firsts[k])],
      totalCaptures |-> Len(rows)]

\* CdxApi.aggregateByUrl: totalCaptures adds up the timestamps of every URL,
\* which is the number of rows.
aggregateByUrl(rows) ==
  LET firsts == FirstSeen(rows, 1)
      entry(i) ==
        LET ranks == {TsRank(rows[j][2]) : j \in {k \in DOMAIN rows : rows[k][1] = rows[i][1]}}
            count == Cardinality({k \in DOMAIN rows : rows[k][1] = rows[i][1]})
        IN [url |-> rows[i][1],
            firstCapture |-> Timestamps[Min(ranks)],
            lastCapture |-> Timestamps[Max(ranks)],
            captureCount |-> count,
            statusCode |-> OrDefault(rows[i][3], "200"),
            mimeType |-> OrDefault(rows[i][4], "text/html")]
      urls == [k \in DOMAIN firsts |-> entry(firsts[k])]
  IN [urls |-> SortBy(urls, [k \in DOMAIN urls |-> 0 - urls[k].captureCount]),
      totalCaptures |-> Len(rows)]

\* rows.map(...) of the branch without capture counts
collapsedUrls(rows) ==
  [i \in DOMAIN rows |->
     [url |-> rows[i][1],
      firstCapture |-> rows[i][2],
      lastCapture |-> rows[i][2],
      captureCount |-> 1,
      statusCode |-> OrDefault(rows[i][3], "200"),
      mimeType |-> OrDefault(rows[i][4], "text/html")]]

\* if (params.limit && siteUrls.length > params.limit) siteUrls.slice(0, limit)
applyLimit(siteUrls, limit) ==
  IF limit # 0 /\ Len(siteUrls) > limit THEN SubSeq(siteUrls, 1, limit) ELSE siteUrls

\* switch (params.sortBy): 'urlkey' and an absent sortBy leave the order.
sortSiteUrls(siteUrls, sortBy) ==
  CASE sortBy = "oldest" ->
         SortBy(siteUrls, [k \in DOMAIN siteUrls |-> TsRank(siteUrls[k].firstCapture)])
    [] sortBy = "newest" ->
         SortBy(siteUrls, [k \in DOMAIN siteUrls |-> 0 - TsRank(siteUrls[k].lastCapture)])
    [] sortBy = "captures" ->
         SortBy(siteUrls, [k \in DOMAIN siteUrls |-> 0 - siteUrls[k].captureCount])
    [] OTHER -> siteUrls

\* new URL(...).hostname of the originals of the simulated index
hostname(url) ==
  IF url = "blog.example.com/" THEN "blog.example.com" ELSE "example.com"

\* CdxApi.extractSubdomains for the base domain example.com: the sorted
\* labels of the hosts below it.
extractSubdomains(siteUrls) ==
  IF \E k \in DOMAIN siteUrls : hostname(siteUrls[k].url) = "blog.example.com"
    THEN <<"blog">> ELSE << >>

\* getSiteUrls once withRetry returned result (dateRange, pathStructure and
\* mimeTypeSummary are left out of the response)
getSiteUrls(params, result) ==
  LET parsed == parseRows(result)
      listed == IF params.includeCaptureCounts
                  THEN aggregateByUrl(parsed.rows).urls
                ELSE collapsedUrls(parsed.rows)
      limited == applyLimit(listed, params.limit)
      sorted == sortSiteUrls(limited, params.sortBy)
      keep(u) == hostname(u.url) \in {"example.com", "www.example.com"}
      siteUrls == IF params.matchType = "domain" /\ ~params.includeSubdomains
                    THEN SelectSeq(sorted, keep) ELSE sorted
  IN [url |-> params.url,
      matchType |-> params.matchType,
      totalUrls |-> Len(siteUrls),
      totalCaptures |-> Len(parsed.rows),
      urls |-> siteUrls,
      subdomains |-> IF params.matchType = "domain"
                       THEN extractSubdomains(sorted) ELSE << >>,
      truncated |-> parsed.resumeKey.t = "string" /\ parsed.resumeKey.v # "",
      resumeKey |-> parsed.resumeKey]

\* ------------------------------------------------------ tool boundary
\* error.message of a WaybackApiError the program constructs
WaybackMessage(error) ==
  CASE error.code = "NOT_FOUND" -> "URL not found in Wayback Machine"
    [] error.code = "PARSE_ERROR" -> "Failed to parse CDX response"
    [] OTHER -> "HTTP error"

\* What SiteUrlsQuerySchema.parse throws on arguments it rejects: a ZodError.
ZodError == [kind |-> "Error", code |-> "ZodError", status |-> 0]

\* formatError: a WaybackApiError by its code, message and details (which
\* JSON.stringify drops when undefined); an Error by its message; any other
\* thrown value by String(error), "[object Object]" for the object fetch throws.
formatError(error) ==
  IF error.kind = "WaybackApiError"
    THEN [error |-> [code |-> error.code, message |-> WaybackMessage(error),
                     details |-> IF error.status # 0 THEN Num(error.status)
                                 ELSE JsUndefined]]
  ELSE IF error.kind = "Error"
    THEN [error |-> [code |-> "UNKNOWN_ERROR", message |-> error.code,
                     details |-> JsUndefined]]
  ELSE [error |-> [code |-> "UNKNOWN_ERROR", message |-> "[object Object]",
                   details |-> JsUndefined]]

\* handleToolError
handleToolError(error) == JsonStringify(Val(formatError(error)))

\* Mutant: a handler without its catch block.
handlerRethrows(outcome) ==
  IF outcome.tag = "return" THEN Return(JsonStringify(Val(outcome.value)))
  ELSE outcome

\* A tool handler, from the outcome of its try block (schema parse and API
\* call): JSON.stringify(result), or the catch block's handleToolError(error).
handler(outcome) ==
  IF outcome.tag = "return" THEN Return(JsonStringify(Val(outcome.value)))
  ELSE Return(handleToolError(outcome.value))

\* The CallToolRequest handler on a name without a handler.
UnknownTool ==
  Return(JsonStringify(Val([error |-> [code |-> "UNKNOWN_TOOL",
                                       message |-> "Unknown tool",
                                       details |-> JsUndefined]])))

ToolNames ==
  {"wayback_check_availability", "wayback_get_snapshots",
   "wayback_get_snapshot_content", "wayback_compare_snapshots",
   "wayback_bulk_check", "wayback_get_changes_timeline",
   "wayback_analyze_changes", "wayback_get_site_urls"}

\* The program calls withRetry again, after the call before has ended: with
\* fetchJson as operation, or on 'cdx' with the fetch, text and JSON.parse
\* closure of the CDX queries.
RetryStart(endpoint) ==
  /\ rt.pc \in {"idle", "done"}
  /\ rt.call < MaxRetryCalls
  /\ rt' = RtEnter(IF endpoint = EpCdx THEN "siteUrls" ELSE "fetchJson", "op", endpoint)
  /\ UNCHANGED <<now, requests, admissions, acq, workload, av, inv, upstream, served, cacheVars>>

\* The answers of the simulated upstream of SpecRetry.
RetryResponses ==
  {Resp(200, Json("a")), Resp(200, Json("b")), Resp(200, Garbage), NoAnswer}
    \cup {Resp(st, EmptyText) : st \in {400, 403, 404, 429, 500, 502, 503}}

\* The runs of SpecRL: all calls on one endpoint, or calls on a content
\* endpoint mixed with calls on another one.
Workloads ==
  {{e} : e \in {EpAvailable, EpCdx, EpWeb, EpOther}}
    \cup {{EpWeb, e} : e \in {EpAvailable, EpCdx, EpOther}}

\* No one-step operation under test.
InvIdle == [op |-> "none", done |-> FALSE]
InitInvIdle == inv = InvIdle

InitRL ==
  /\ now = 0
  /\ requests = << >>
  /\ admissions = [c \in Categories |-> << >>]
  /\ acq = << >>

NoKey == [prefix |-> "", json |-> << >>]

InitKeyIdle ==
  /\ kin = [prefix |-> "", a |-> << >>, b |-> << >>]
  /\ kout = [done |-> FALSE, a |-> NoKey, b |-> NoKey]

InitCacheIdle ==
  /\ cache = NewCache(NoFile)
  /\ cres = [op |-> "new", key |-> "", at |-> 0, pre |-> NewCache(NoFile),
             out |-> Return(JsUndefined)]
  /\ lastSet = << >>

InitAvailIdle == av = AvIdle

InitRetryIdle ==
  /\ upstream = << >>
  /\ served = << >>
  /\ rt = RtIdle

Init ==
  /\ InitRL
  /\ InitInvIdle
  /\ InitRetryIdle
  /\ InitCacheIdle
  /\ InitKeyIdle
  /\ InitAvailIdle
  /\ workload \in Workloads

\* No run issues more calls than this.
MaxCalls == 15 + MaxOver

WakeAny == \E i \in 1..MaxCalls : Wake(i)

NextRL ==
  \/ \E e \in EndpointIds : Call(e)
  \/ WakeAny
  \/ Elapse
  \/ TimerAdvance

\* Time keeps advancing and an expired timer's callback is eventually run.
SpecRL ==
  /\ Init /\ [][NextRL]_vars
  /\ WF_vars(Elapse) /\ WF_vars(TimerAdvance) /\ WF_vars(WakeAny)

InitRetry ==
  /\ InitRL
  /\ InitInvIdle
  /\ workload = {}
  /\ upstream \in [{"op"} -> [1..MaxScript -> RetryResponses]]
  /\ served = [k \in {"op"} |-> 0]
  /\ rt = RtIdle
  /\ InitCacheIdle
  /\ InitKeyIdle
  /\ InitAvailIdle

NextRetry ==
  \/ \E e \in {EpAvailable, EpCdx, EpWeb} : RetryStart(e)
  \/ RetrySteps

SpecRetry == InitRetry /\ [][NextRetry]_vars

\* The parameter objects generateKey is applied to.
ParamNames ==
  {SortedNames[i] : i \in (Len(SortedNames) - MaxParams + 1)..Len(SortedNames)}
ParamValues == {JsUndefined, Str("1"), Num("1"), Num("2")}
ParamObjects ==
  UNION {{p \in [1..n -> ParamNames \X ParamValues] :
            \A i, j \in 1..n : p[i][1] = p[j][1] => i = j} : n \in 0..MaxParams}

InitKey ==
  /\ InitRL
  /\ InitInvIdle
  /\ workload = {}
  /\ InitRetryIdle
  /\ InitCacheIdle
  /\ InitAvailIdle
  /\ kin \in [prefix : {"availability"}, a : ParamObjects, b : ParamObjects]
  /\ kout = [done |-> FALSE, a |-> NoKey, b |-> NoKey]

\* cache.generateKey(prefix, a) and cache.generateKey(prefix, b)
ApplyGenerateKey ==
  /\ ~kout.done
  /\ kout' = [done |-> TRUE,
              a |-> generateKey(kin.prefix, kin.a),
              b |-> generateKey(kin.prefix, kin.b)]
  /\ UNCHANGED <<now, requests, admissions, acq, workload, av, inv, retryVars,
                 cache, cres, lastSet, kin>>

NextKey == ApplyGenerateKey

SpecKey == InitKey /\ [][NextKey]_vars

\* The documents a Cache may find on disk when it is constructed: none, one
\* that cannot be read, or the store a former run saved; on a path that can
\* be written or on one that cannot.
CacheKeys == {"k1", "k2"}
CacheDocs == {Val("d1")}
OldEntries ==
  [data : {JsonStringify(Val("d1")), CorruptData},
   timestamp : {0 - 1500, 0 - 500},
   ttl : {1}]
DiskStates ==
  {NoFile, UnreadableFile, FileOf(<< >>), ReadOnly(NoFile)}
    \cup {FileOf([k \in {"k1"} |-> e]) : e \in OldEntries}
    \cup {ReadOnly(FileOf([k \in {"k1"} |-> e])) : e \in OldEntries}

InitCache ==
  /\ InitRL
  /\ InitInvIdle
  /\ workload = {}
  /\ InitRetryIdle
  /\ InitKeyIdle
  /\ InitAvailIdle
  /\ cache \in {NewCache(d) : d \in DiskStates}
  /\ cres = [op |-> "new", key |-> "", at |-> 0, pre |-> NewCache(NoFile),
             out |-> Return(JsUndefined)]
  /\ lastSet = << >>

\* A Cache operation op(key) ran now, with result r.
CacheDid(op, key, r) ==
  /\ cache' = r.cache
  /\ cres' = [op |-> op, key |-> key, at |-> now, pre |-> cache, out |-> r.out]
  /\ UNCHANGED <<now, requests, admissions, acq, workload, av, inv, retryVars, kin, kout>>

CacheInitialize ==
  /\ CacheDid("initialize", "", cacheInitialize(cache, now))
  /\ lastSet' = << >>

CacheClose ==
  /\ CacheDid("close", "", cacheClose(cache))
  /\ UNCHANGED lastSet

CacheGet(key) ==
  /\ CacheDid("get", key, cacheGet(cache, key, now))
  /\ UNCHANGED lastSet

CacheSet(key, data, ttl) ==
  /\ CacheDid("set", key, cacheSet(cache, key, data, ttl, now))
  /\ lastSet' = IF cache.initialized
                  THEN MapSet(lastSet, key, [value |-> data, ttl |-> ttl, at |-> now])
                  ELSE lastSet

CacheDelete(key) ==
  /\ CacheDid("delete", key, cacheDelete(cache, key))
  /\ lastSet' = IF cache.initialized THEN Without(lastSet, key) ELSE lastSet

CacheClear ==
  /\ CacheDid("clear", "", cacheClear(cache))
  /\ lastSet' = IF cache.initialized THEN << >> ELSE lastSet

CacheCleanup ==
  /\ CacheDid("cleanup", "", cacheCleanup(cache, now))
  /\ UNCHANGED lastSet

CacheGenerateKey(params) ==
  /\ CacheDid("generateKey", "",
              [cache |-> cache, out |-> Return(Val(generateKey("cdx", params)))])
  /\ UNCHANGED lastSet

\* Time passes between two Cache operations: half a second, or a default TTL.
CacheElapse(d) ==
  /\ \/ /\ d = 500
        /\ (now % (DefaultTtl * 1000)) + d <= MaxHalfSeconds * 500
     \/ /\ d = DefaultTtl * 1000
        /\ now < d
  /\ now' = now + d
  /\ UNCHANGED <<requests, admissions, acq, workload, av, inv, retryVars, cacheVars>>

NextCache ==
  \/ CacheInitialize
  \/ CacheClose
  \/ \E k \in CacheKeys : CacheGet(k)
  \/ \E k \in CacheKeys, d \in CacheDocs, ttl \in {0, 1} : CacheSet(k, d, ttl)
  \/ \E k \in CacheKeys : CacheDelete(k)
  \/ CacheClear
  \/ CacheCleanup
  \/ \E q \in {<< >>, << <<"url", Str("1")>> >>} : CacheGenerateKey(q)
  \/ \E d \in {500, DefaultTtl * 1000} : CacheElapse(d)

SpecCache == InitCache /\ [][NextCache]_vars

\* ------------------------------------------- SpecAvail: AvailabilityApi
\* The entry of calls the ghost history keeps for one checkAvailabilityInternal.
\* cached is what cache.get gave: null, or the response.
InternalCall(url, cached) ==
  [url |-> url, cached |-> cached, available |-> NoResult, cdx |-> NoResult]

\* The history with the last call's withRetry outcome filled in.
Answered(a, field, outcome) ==
  [a EXCEPT !.calls[Len(a.calls)] =
     IF field = "available" THEN [@ EXCEPT !.available = outcome]
     ELSE [@ EXCEPT !.cdx = outcome]]

cacheKeyOf(url, timestamp) ==
  generateKey("availability", <<<<"url", Str(url)>>, <<"timestamp", timestamp>>>>)

\* checkAvailabilityInternal up to its first await: generateKey, cache.get,
\* `if (cached) return cached`, and the entry into withRetry(..., 'available')
AvInternal ==
  /\ av.pc = "internal"
  /\ LET g == cacheGet(cache, cacheKeyOf(av.url, av.timestamp), now)
         hit == g.out.tag = "return" /\ g.out.value.t = "val"
         a == [av EXCEPT !.calls =
                 Append(@, InternalCall(av.url, IF hit THEN g.out.value ELSE JsNull))]
     IN /\ cache' = g.cache
        /\ IF g.out.tag = "throw"
             THEN av' = BulkNext(a, g.out) /\ rt' = rt
           ELSE IF hit
             THEN av' = checkAvailability(a, g.out.value.v) /\ rt' = rt
           ELSE /\ av' = [a EXCEPT !.pc = "available"]
                /\ rt' = RtEnter("fetchJson", AvailabilityRequest(av.url), EpAvailable)
  /\ UNCHANGED <<now, requests, admissions, acq, workload, inv, upstream, served,
                 cres, lastSet, kin, kout>>

\* Mutant: the response is returned and not cached.
AvReturnUncached(a, response) ==
  /\ cache' = cache
  /\ av' = checkAvailability(a, response)

\* cache.set(cacheKey, response, CACHE_TTL.AVAILABILITY); return response
AvCacheAndReturn(a, response) ==
  LET s == cacheSet(cache, cacheKeyOf(a.url, a.timestamp), Val(response),
                    CACHE_TTL.AVAILABILITY, now)
  IN /\ cache' = s.cache
     /\ av' = IF s.out.tag = "throw" THEN BulkNext(a, s.out)
              ELSE checkAvailability(a, response)

\* withRetry(fetchJson, 'available') ended: a throw leaves the check; else
\* the response is transformed and, when not archived, the fallback entered.
AvAvailabilityDone ==
  /\ av.pc = "available"
  /\ rt.pc = "done"
  /\ LET a == Answered(av, "available", rt.result)
         response == TransformResponse(av.url, rt.result.value)
     IN IF rt.result.tag = "throw"
          THEN av' = BulkNext(a, rt.result) /\ UNCHANGED <<cache, rt>>
        ELSE IF ~response.isArchived
          THEN /\ av' = [a EXCEPT !.pc = "cdx", !.built = response]
               /\ rt' = RtEnter("cdxFallback", CdxRequest(av.url), EpCdx)
               /\ cache' = cache
        ELSE AvCacheAndReturn(a, response) /\ rt' = rt
  /\ UNCHANGED <<now, requests, admissions, acq, workload, inv, upstream, served,
                 cres, lastSet, kin, kout>>


\* Mutant: checkCdxFallback has no catch; its exception ends the lookup.
AvCdxDoneRaises ==
  /\ av.pc = "cdx"
  /\ rt.pc = "done"
  /\ LET a == Answered(av, "cdx", rt.result)
         cdxResult == checkCdxFallback(av.url, rt.result)
         response == IF cdxResult.t = "val" THEN cdxResult.v ELSE av.built
     IN IF rt.result.tag = "throw"
          THEN av' = BulkNext(a, rt.result) /\ cache' = cache
        ELSE AvCacheAndReturn(a, response)
  /\ rt' = rt
  /\ UNCHANGED <<now, requests, admissions, acq, workload, inv, upstream, served,
                 cres, lastSet, kin, kout>>

\* checkCdxFallback's withRetry(..., 'cdx') ended: `if (cdxResult) response =
\* cdxResult`, then cache.set and return
AvCdxDone ==
  /\ av.pc = "cdx"
  /\ rt.pc = "done"
  /\ LET a == Answered(av, "cdx", rt.result)
         cdxResult == checkCdxFallback(av.url, rt.result)
         response == IF cdxResult.t = "val" THEN cdxResult.v ELSE av.built
     IN AvCacheAndReturn(a, response)
  /\ rt' = rt
  /\ UNCHANGED <<now, requests, admissions, acq, workload, inv, upstream, served,
                 cres, lastSet, kin, kout>>

\* What the simulated upstream holds: captures of example.com and of
\* www.example.com, with timestamps of 14 and of 4 characters.
Ts14 == <<"2", "0", "2", "0", "0", "1", "1", "5", "1", "2", "0", "0", "0", "0">>
Ts4 == <<"2", "0", "1", "9">>
Captured(ts) == <<"https://web.archive.org/web/", ts, "http://example.com/">>
CdxHeader == <<"timestamp", "original", "statuscode">>
Ok(doc) == Resp(200, Json(doc))
Failing(status) == Resp(status, EmptyText)

\* The answers to the requests about example.com ...
AvailabilityScripts ==
  <<<<Ok(Closest(TRUE, Captured(Ts14), Ts14, "200"))>>,
   <<Ok(NoClosest)>>,
   <<Ok(Closest(FALSE, Captured(Ts4), Ts4, "404"))>>,
   <<Failing(404), Ok(Closest(TRUE, Captured(Ts14), Ts14, "200"))>>>>
CdxScripts ==
  <<<<Ok(<<CdxHeader, <<Ts14, "http://example.com/", "200">>>>)>>,
   <<Ok(<<CdxHeader, <<Ts14>>>>)>>,
   <<Resp(200, EmptyText)>>,
   <<Failing(503)>>>>
\* ... and about www.example.com
WwwAvailabilityScripts ==
  <<<<Ok(Closest(TRUE, Captured(Ts4), Ts4, "301"))>>,
   <<Ok(NoClosest)>>,
   <<NoAnswer>>,
   <<Failing(500), Failing(500), Failing(500),
     Ok(Closest(TRUE, Captured(Ts14), Ts14, "200"))>>>>
WwwCdxScripts ==
  <<<<Ok(<<CdxHeader, <<Ts4, "http://www.example.com/">>>>)>>,
   <<Ok(<<CdxHeader>>)>>,
   <<Resp(200, Garbage)>>,
   <<Failing(503)>>>>

AvailRequests ==
  {AvailabilityRequest(u) :
     u \in {UrlString(w, s) : w, s \in BOOLEAN} \cup {NotAUrl}}
    \cup {CdxRequest(u) : u \in {UrlString(w, FALSE) : w \in BOOLEAN} \cup {NotAUrl}}

\* The upstream answers by site and API; a string that is no URL is refused
\* once and then reported unknown.
Upstream(ap, aw, cp, cw) ==
  [k \in AvailRequests |->
     IF k.url.s # "url"
       THEN IF k.api = "available" THEN <<Failing(400), Ok(NoClosest)>>
            ELSE <<Resp(200, EmptyText)>>
     ELSE IF k.api = "available" THEN (IF k.url.www THEN aw ELSE ap)
     ELSE (IF k.url.www THEN cw ELSE cp)]

\* The URLs a caller asks about, and the lists of them.
InputUrls == {UrlString(FALSE, FALSE), UrlString(TRUE, FALSE), NotAUrl}
UrlLists == UNION {[1..n -> InputUrls] : n \in 1..MaxUrls}

\* One checkBulkAvailability call on a client whose cache was initialized, or
\* was not.
InitAvail ==
  /\ InitRL
  /\ InitInvIdle
  /\ workload = {}
  /\ InitKeyIdle
  /\ cache \in {NewCache(NoFile), cacheInitialize(NewCache(NoFile), 0).cache}
  /\ cres = [op |-> "new", key |-> "", at |-> 0, pre |-> NewCache(NoFile),
             out |-> Return(JsUndefined)]
  /\ lastSet = << >>
  /\ \E ap \in DOMAIN AvailabilityScripts, aw \in DOMAIN WwwAvailabilityScripts,
        cp \in DOMAIN CdxScripts, cw \in DOMAIN WwwCdxScripts :
       upstream = Upstream(AvailabilityScripts[ap], WwwAvailabilityScripts[aw],
                           CdxScripts[cp], WwwCdxScripts[cw])
  /\ served = [k \in AvailRequests |-> 0]
  /\ rt = RtIdle
  /\ \E urls \in UrlLists, timestamp \in {JsUndefined, Str(Ts4)},
        checkWwwVariant \in {"true", "false", "undefined"} :
       av = checkBulkAvailability(urls, timestamp, checkWwwVariant)

NextAvail ==
  \/ AvInternal
  \/ AvAvailabilityDone
  \/ AvCdxDone
  \/ RetryAcquire
  \/ RetryLimiterWake
  \/ RetryInvoke
  \/ RetryBackoffDone

SpecAvail == InitAvail /\ [][NextAvail]_vars

\* C1: at every admission time t of a category, the admissions recorded for it
\* with timestamp in (t - windowMs, t] number at most its maxRequests.
InWindow(c, t) ==
  {i \in DOMAIN admissions[c] :
     /\ admissions[c][i] > t - RATE_LIMITS[c].windowMs
     /\ admissions[c][i] <= t}

RateWindowInvariant ==
  \A c \in Categories : \A k \in DOMAIN admissions[c] :
    Cardinality(InWindow(c, admissions[c][k])) <= RATE_LIMITS[c].maxRequests

\* C2: every acquire call issued is eventually admitted and returns: calls are
\* finitely many and an admitted call stays admitted, so from some point on no
\* call is left suspended.
SeqSum(f, S) ==
  LET RECURSIVE Sum(_)
      Sum(T) == IF T = {} THEN 0
                ELSE LET x == CHOOSE y \in T : TRUE IN Len(f[x]) + Sum(T \ {x})
  IN Sum(S)

AllAdmitted ==
  /\ \A i \in DOMAIN acq : acq[i].st = "admitted"
  /\ SeqSum(admissions, Categories) = Len(acq)

EveryCallAdmitted == <>[]AllAdmitted

\* A category has admitted more calls than its maxRequests: some call waited
\* for the window to move on.
WitnessWindowMoved ==
  \E c \in Categories : Len(admissions[c]) > RATE_LIMITS[c].maxRequests

\* A call that was suspended has been admitted.
WitnessDelayedAdmitted ==
  \E i \in DOMAIN acq : acq[i].st = "admitted" /\ acq[i].slept

\* The history of the withRetry call in progress, by kind of event.
Events(kind) == LET is(e) == e[1] = kind IN SelectSeq(rt.log, is)
Invocations == Events("invoke")
BackoffSleeps == Events("sleep")
Acquires == Events("acquire")

\* C3: when the upstream answers 404 to the first attempt, withRetry has ended
\* after that one invocation, with no backoff sleep, raising NOT_FOUND.
NotFoundIsTerminal ==
  (Len(Invocations) >= 1 /\ Invocations[1][2] = 404) =>
     /\ rt.pc = "done"
     /\ Len(Invocations) = 1
     /\ Len(Acquires) = 1
     /\ BackoffSleeps = << >>
     /\ rt.result.tag = "throw"
     /\ rt.result.value.kind = "WaybackApiError"
     /\ rt.result.value.code = "NOT_FOUND"

WitnessNotFound ==
  /\ rt.pc = "done"
  /\ Len(Invocations) = 1
  /\ Invocations[1][2] = 404

\* The upstream answered 503 to the first attempt of the call and 200, with a
\* body the operation accepts, to the second.
Unavailable503Then200 ==
  /\ Len(Invocations) >= 2
  /\ Invocations[1][2] = 503
  /\ Invocations[2][2] = 200
  /\ AnswerAt(rt.key, Invocations[2][3]).body.parses

\* C4: after 503 then 200, withRetry has returned the second attempt's result,
\* after two invocations and one backoff sleep, of 2000 ms.
RetryAfter503Returns200 ==
  Unavailable503Then200 =>
     /\ rt.pc = "done"
     /\ rt.result = Return(AnswerAt(rt.key, Invocations[2][3]).body.doc)
     /\ Len(Invocations) = 2
     /\ BackoffSleeps = << <<"sleep", 2000, 0>> >>

WitnessRetried503 == rt.pc = "done" /\ Unavailable503Then200

\* The properties of a parameter object whose value is not undefined.
DefinedParams(params) ==
  {params[i] : i \in {j \in DOMAIN params : params[j][2] # JsUndefined}}

\* C6: generateKey gives two parameter objects the same key exactly when they
\* have the same properties with the same values, undefined ones dropped.
KeyEqualIffSameParams ==
  kout.done => ((kout.a = kout.b) <=> (DefinedParams(kin.a) = DefinedParams(kin.b)))

\* Two objects with the same two properties in opposite insertion orders got
\* the same key.
WitnessKeyOrderFree ==
  /\ kout.done
  /\ Len(kin.a) = 2 /\ Len(kin.b) = 2
  /\ kin.a[1] = kin.b[2] /\ kin.a[2] = kin.b[1]
  /\ kin.a[1][2] # JsUndefined /\ kin.a[2][2] # JsUndefined
  /\ kout.a = kout.b

\* C5: a get of an entry with timestamp + ttl * 1000 < now returns null and
\* leaves the key out of the store; a get up to that instant of an entry that
\* set wrote returns the value set.
CacheExpiry ==
  (cres.op = "get" /\ cres.pre.initialized /\ cres.key \in DOMAIN cres.pre.store) =>
    LET e == cres.pre.store[cres.key]
        late == e.timestamp + e.ttl * 1000 < cres.at
    IN /\ late => /\ cres.out = Return(JsNull)
                  /\ cres.key \notin DOMAIN cache.store
       /\ (~late /\ cres.key \in DOMAIN lastSet) =>
             cres.out = Return(lastSet[cres.key].value)

\* A set with ttl = 1 s, read 1.5 s later: absent and gone.
WitnessExpiredGet ==
  /\ cres.op = "get"
  /\ cres.key \in DOMAIN lastSet
  /\ lastSet[cres.key].ttl = 1
  /\ cres.at = lastSet[cres.key].at + 1500
  /\ cres.key \in DOMAIN cres.pre.store
  /\ cres.out = Return(JsNull)
  /\ cres.key \notin DOMAIN cache.store

\* C7 as claimed: on a Cache that is not initialized, get, set, delete, clear
\* and generateKey all raise and change nothing.
UninitializedRaisesAll ==
  (cres.op \in {"get", "set", "delete", "clear", "generateKey"}
     /\ ~cres.pre.initialized) =>
    (cres.out.tag = "throw" /\ cache = cres.pre)

\* C7 as amended: get, set, delete and clear raise and change nothing;
\* generateKey changes nothing and returns its key.
UninitializedRaises ==
  /\ (cres.op \in {"get", "set", "delete", "clear"} /\ ~cres.pre.initialized) =>
       (cres.out = NotInitialized /\ cache = cres.pre)
  /\ cres.op = "generateKey" => (cres.out.tag = "return" /\ cache = cres.pre)

\* A store operation was refused on a closed Cache that still holds an entry.
WitnessClosedRefused ==
  /\ cres.op \in {"get", "set", "delete", "clear"}
  /\ ~cres.pre.initialized
  /\ cres.pre.store # << >>
  /\ cres.out = NotInitialized

\* What the sources reported to one checkAvailabilityInternal call: the
\* Availability API named an available closest snapshot, or the CDX index
\* answered a header and a row of a timestamp and an original at least; for
\* a call answered from the cache, what the cached response says.
CdxReportedRow(call) ==
  /\ call.cdx.tag = "return"
  /\ Len(call.cdx.value) > 1
  /\ Len(call.cdx.value[2]) >= 2
ReportedArchived(call) ==
  IF call.cached.t = "val" THEN call.cached.v.isArchived
  ELSE \/ /\ call.available.tag = "return"
          /\ call.available.value.present
          /\ call.available.value.available
       \/ CdxReportedRow(call)

\* YYYY-MM-DD of the timestamps the upstream holds, written out.
DateOf(ts) ==
  IF ts = Ts14 THEN <<"2", "0", "2", "0", "-", "0", "1", "-", "1", "5">> ELSE ts

\* A finished check whose primary call got no closest snapshot from the
\* Availability API and one row from the CDX index.
FallbackCase(c) ==
  /\ Len(c.calls) >= 1
  /\ c.calls[1].cached.t # "val"
  /\ c.calls[1].available.tag = "return"
  /\ ~c.calls[1].available.value.present
  /\ CdxReportedRow(c.calls[1])
  /\ Len(c.calls[1].cdx.value) = 2

\* C8: when the Availability API reports no closest snapshot for a URL and
\* the CDX index returns one qualifying row for it, checkAvailability returns
\* isArchived true for that URL with closestSnapshot built from the row: its
\* timestamp, the Wayback URL of its timestamp and original, the date of its
\* timestamp, and its status code ('200' when the row has none).
CdxFallbackArchived ==
  \A i \in DOMAIN av.checks :
    LET c == av.checks[i]
        row == c.calls[1].cdx.value[2]
    IN FallbackCase(c) =>
         /\ c.outcome.tag = "return"
         /\ c.outcome.value.url = c.url
         /\ c.outcome.value.isArchived
         /\ c.outcome.value.checkedVariant = NoUrl
         /\ c.outcome.value.closestSnapshot =
              [present |-> TRUE,
               url |-> <<"https://web.archive.org/web/", row[1], row[2]>>,
               timestamp |-> row[1],
               formattedDate |-> DateOf(row[1]),
               status |-> IF Len(row) >= 3 THEN row[3] ELSE "200"]

WitnessCdxFallback ==
  \E i \in DOMAIN av.checks :
    /\ FallbackCase(av.checks[i])
    /\ av.checks[i].outcome.tag = "return"
    /\ av.checks[i].outcome.value.closestSnapshot.timestamp = Ts14

\* A finished check with checkWwwVariant enabled whose URL was reported not
\* archived and whose www-toggled variant was reported archived.
VariantCase(c) ==
  /\ av.checkWwwVariant # "false"
  /\ Len(c.calls) = 2
  /\ c.calls[1].url = c.url
  /\ ~ReportedArchived(c.calls[1])
  /\ c.calls[2].url.s = "url"
  /\ c.calls[2].url.www = ~c.url.www
  /\ ReportedArchived(c.calls[2])

\* C9: when the requested URL is reported not archived and its www-toggled
\* variant is reported archived, checkAvailability with checkWwwVariant
\* enabled returns isArchived true, url the requested URL, and checkedVariant
\* the variant URL that was found (the toggled host, with its trailing slash).
WwwVariantMerged ==
  \A i \in DOMAIN av.checks :
    LET c == av.checks[i] IN
      VariantCase(c) =>
        /\ c.outcome.tag = "return"
        /\ c.outcome.value.isArchived
        /\ c.outcome.value.url = c.url
        /\ c.outcome.value.archiveOrgUrl = <<"https://web.archive.org/web/*/", c.url>>
        /\ c.outcome.value.checkedVariant = c.calls[2].url
        /\ c.outcome.value.checkedVariant = UrlString(~c.url.www, TRUE)

WitnessWwwVariant ==
  \E i \in DOMAIN av.checks :
    /\ VariantCase(av.checks[i])
    /\ av.checks[i].url = UrlString(FALSE, FALSE)
    /\ av.checks[i].outcome.tag = "return"
    /\ av.checks[i].outcome.value.checkedVariant = UrlString(TRUE, TRUE)

\* The entry the loop of checkBulkAvailability stores for a check's outcome.
EntryOf(c) ==
  IF c.outcome.tag = "return" THEN c.outcome.value
  ELSE [url |-> c.url, isArchived |-> FALSE,
        archiveOrgUrl |-> <<"https://web.archive.org/web/*/", c.url>>,
        closestSnapshot |-> NoSnapshot, checkedVariant |-> NoUrl]

\* C10: checkBulkAvailability completes with an entry for every requested
\* URL, and for each check of the list: the entry of its URL has isArchived
\* false when the check raised, and is what the check returned otherwise.
BulkEntryPerCheck ==
  av.pc = "done" =>
    /\ Len(av.checks) = Len(av.urls)
    /\ \A i \in DOMAIN av.urls :
         /\ av.checks[i].url = av.urls[i]
         /\ av.urls[i] \in DOMAIN av.results
         /\ av.checks[i].outcome.tag = "throw" => ~av.results[av.urls[i]].isArchived
         /\ av.checks[i].outcome.tag = "return" =>
              av.results[av.urls[i]] = av.checks[i].outcome.value

\* What holds instead: the entry of a URL is that of its last check in the list.
BulkEntryOfLastCheck ==
  av.pc = "done" =>
    /\ Len(av.checks) = Len(av.urls)
    /\ DOMAIN av.results = {av.urls[i] : i \in DOMAIN av.urls}
    /\ \A i \in DOMAIN av.urls :
         (\A j \in DOMAIN av.urls : j > i => av.urls[j] # av.urls[i]) =>
           av.results[av.urls[i]] = EntryOf(av.checks[i])

\* C19: in withRetry every invocation of the operation comes right after an
\* acquire of that attempt, every acquire is recorded by the rate limiter
\* under the category of the call's endpoint, and one call invokes the
\* operation at most maxRetries (3) times.
InvokeFollowsAcquire ==
  /\ Len(Invocations) <= DefaultMaxRetries
  /\ Len(Invocations) <= Len(Acquires)
  /\ \A i \in DOMAIN rt.log :
       rt.log[i][1] = "invoke" => (i > 1 /\ rt.log[i - 1][1] = "acquire")

AcquireIsForEndpoint ==
  (rt'.call = rt.call /\ Len(Events("acquire"))' = Len(Events("acquire")) + 1) =>
     admissions' = [admissions EXCEPT ![getCategory(rt.endpoint)] = Append(@, now')]

AcquireBeforeEveryInvoke == []InvokeFollowsAcquire /\ [][AcquireIsForEndpoint]_vars

WitnessThreeAttempts ==
  /\ rt.pc = "done"
  /\ Len(Invocations) = 3
  /\ Len(Acquires) = 3
  /\ rt.endpoint = EpCdx

\* Every attempt of the call that has ended was answered 429 or 503.
AlwaysBusy ==
  /\ rt.pc = "done"
  /\ Len(Invocations) >= 1
  /\ \A i \in DOMAIN Invocations : Invocations[i][2] \in {429, 503}

\* C20: when every attempt fails with 429 or 503, withRetry(maxRetries = 3)
\* invokes the operation exactly 3 times, sleeps 2000, 4000 and 8000 ms (one
\* sleep after each attempt, the last included), and raises the last upstream
\* error as the operation raised it.
BusyUpstreamExhaustsBudget ==
  AlwaysBusy =>
    /\ Len(Invocations) = 3
    /\ BackoffSleeps = << <<"sleep", 2000, 0>>, <<"sleep", 4000, 0>>, <<"sleep", 8000, 0>> >>
    /\ rt.log[Len(rt.log)][1] = "sleep"
    /\ rt.result = Throw(HttpError(Invocations[3][2]))

WitnessBusyExhausted ==
  /\ AlwaysBusy
  /\ Invocations[1][2] = 429
  /\ Invocations[3][2] = 503

\* -------------------------------------------------- the one-step operations
\* Everything but the operation under test is as constructed.
InitOthersIdle ==
  /\ InitRL
  /\ workload = {}
  /\ InitRetryIdle
  /\ InitCacheIdle
  /\ InitKeyIdle
  /\ InitAvailIdle

\* The pages the two getParsedContent calls of compareSnapshots return, and
\* the two timestamps: 12:00 of one day and 00:00 two days later.
ParsedContents ==
  [title : {"A", "B"}, metaDescription : {"d"}, h1 : {<<"H">>, << >>},
   h2 : {<< >>}, textContent : {<<"one", "two">>, <<"one">>, << >>},
   links : {<< >>, <<[href |-> "/x", isExternal |-> FALSE]>>},
   canonicalUrl : {"c"}, robots : {"index", "noindex"}, schemaTypes : {<< >>}]
SnapshotTimes == {[text |-> "20200115120000", hour |-> 12],
                  [text |-> "20200117000000", hour |-> 48]}
CompareElements ==
  {JsUndefined, Val({"all"}), Val({"title", "description", "headings"}),
   Val({"content"}), Val({"links", "structure"})}

InitDiff ==
  /\ InitOthersIdle
  /\ inv \in [op : {"compareSnapshots"}, done : {FALSE},
              params : [url : {"http://example.com"},
                        timestamp1 : SnapshotTimes, timestamp2 : SnapshotTimes,
                        compareElements : CompareElements,
                        showDiff : {"true", "false"}],
              content1 : ParsedContents, content2 : ParsedContents,
              out : {<< >>}]

ApplyCompareSnapshots ==
  /\ inv.op = "compareSnapshots"
  /\ ~inv.done
  /\ inv' = [inv EXCEPT !.done = TRUE,
                        !.out = compareSnapshots(inv.params, inv.content1, inv.content2)]
  /\ UNCHANGED <<now, requests, admissions, acq, workload, av, upstream, served,
                 rt, cacheVars>>

NextDiff == ApplyCompareSnapshots

SpecDiff == InitDiff /\ [][NextDiff]_vars

\* C11: compareSnapshots with timestamp1 equal to timestamp2, both fetches
\* returning the same content, yields hasChanges false and an empty changes.
IdenticalSnapshotsNoChanges ==
  (/\ inv.op = "compareSnapshots"
   /\ inv.done
   /\ inv.params.timestamp1 = inv.params.timestamp2
   /\ inv.content1 = inv.content2) =>
     /\ ~inv.out.hasChanges
     /\ DOMAIN inv.out.changes = {}

\* The capture dates of the listings: 2020-01-01 and the days 6, 7, 14, 29,
\* 30, 89, 90, 179, 180 and 200 days after it.
Date(year, month, day) == [year |-> year, month |-> month, day |-> day]
CaptureDates ==
  <<Date(2020, 1, 1), Date(2020, 1, 7), Date(2020, 1, 8), Date(2020, 1, 15),
    Date(2020, 1, 30), Date(2020, 1, 31), Date(2020, 3, 30), Date(2020, 3, 31),
    Date(2020, 6, 28), Date(2020, 6, 29), Date(2020, 7, 19)>>

\* The listing of the captures chosen, oldest first, with their digests.
RECURSIVE Listing(_, _)
Listing(chosen, digests) ==
  IF chosen = {} THEN << >>
  ELSE LET first == Min(chosen) IN
    <<[timestamp |-> CaptureDates[first], digest |-> digests[Len(digests)]]>>
      \o Listing(chosen \ {first}, SubSeq(digests, 1, Len(digests) - 1))

\* The long listings: the first n captures, the digest changing at every
\* capture but the one at position same (at every capture when same is 0).
LongLengths == (Len(CaptureDates) - 2)..Len(CaptureDates)
LongListing(n, same) ==
  [i \in 1..n |->
     [timestamp |-> CaptureDates[i],
      digest |-> IF (i + (IF same # 0 /\ i >= same THEN 1 ELSE 0)) % 2 = 0
                   THEN "a" ELSE "b"]]

\* The cache of a started server: initialized, with no file found on disk.
InitCacheReady ==
  /\ cache = cacheInitialize(NewCache(NoFile), 0).cache
  /\ cres = [op |-> "new", key |-> "", at |-> 0, pre |-> NewCache(NoFile),
             out |-> Return(JsUndefined)]
  /\ lastSet = << >>

\* The params object handed to generateKey.
timelineKey(params) ==
  generateKey("timeline",
    <<<<"url", Str(params.url)>>,
      <<"granularity", IF params.granularity = "undefined" THEN JsUndefined
                       ELSE Str(params.granularity)>>>>)

InitTimeline ==
  /\ InitRL
  /\ workload = {}
  /\ InitRetryIdle
  /\ InitKeyIdle
  /\ InitAvailIdle
  /\ InitCacheReady
  /\ \E granularity \in {"daily", "weekly", "monthly", "undefined"},
        snapshots \in
          UNION {{Listing(chosen, digests) :
                    digests \in [1..Cardinality(chosen) -> {"a", "b"}]} :
                   chosen \in {c \in SUBSET DOMAIN CaptureDates :
                                 Cardinality(c) <= MaxSnapshots}}
            \cup {LongListing(n, same) : n \in LongLengths, same \in 0..Len(CaptureDates)} :
       inv = [op |-> "getChangesTimeline", done |-> FALSE,
              params |-> [url |-> "http://example.com", granularity |-> granularity],
              snapshots |-> snapshots,
              out |-> << >>]

\* getChangesTimeline: generateKey, cache.get (a miss on the empty cache), the
\* listing inv.snapshots from getSnapshots, the response, cache.set, return.
ApplyGetChangesTimeline ==
  /\ inv.op = "getChangesTimeline"
  /\ ~inv.done
  /\ LET g == cacheGet(cache, timelineKey(inv.params), now)
         response == getChangesTimeline(inv.params, inv.snapshots)
     IN /\ g.out = Return(JsNull)
        /\ cache' = cacheSet(g.cache, timelineKey(inv.params), Val(response),
                             TtlOf("CDX_QUERIES"), now).cache
        /\ inv' = [inv EXCEPT !.done = TRUE, !.out = response]
  /\ UNCHANGED <<now, requests, admissions, acq, workload, av, upstream, served,
                 rt, cres, lastSet, kin, kout>>

NextTimeline == ApplyGetChangesTimeline

SpecTimeline == InitTimeline /\ [][NextTimeline]_vars

\* The sum of daysSincePrevious over the events a finished call returned.
ReturnedDays ==
  LET RECURSIVE Total(_)
      Total(I) == IF I = {} THEN 0
                  ELSE LET i == CHOOSE j \in I : TRUE
                       IN inv.out.changeEvents[i].daysSincePrevious + Total(I \ {i})
  IN Total(DOMAIN inv.out.changeEvents)
ReturnedEvents == Len(inv.out.changeEvents)

\* C13: changeFrequency is the class of the mean of daysSincePrevious over the
\* returned events: below 7 very_frequent, below 30 frequent, below 90
\* moderate, below 180 infrequent, else rare (means 6, 29, 89, 179, 200).
FrequencyByMean ==
  (inv.op = "getChangesTimeline" /\ inv.done /\ ReturnedEvents > 0) =>
    LET f == inv.out.summary.changeFrequency
        sum == ReturnedDays
        n == ReturnedEvents
    IN /\ (f = "very_frequent") <=> (sum < 7 * n)
       /\ (f = "frequent") <=> (sum >= 7 * n /\ sum < 30 * n)
       /\ (f = "moderate") <=> (sum >= 30 * n /\ sum < 90 * n)
       /\ (f = "infrequent") <=> (sum >= 90 * n /\ sum < 180 * n)
       /\ (f = "rare") <=> (sum >= 180 * n)
       /\ sum = 6 * n => f = "very_frequent"
       /\ sum = 29 * n => f = "frequent"
       /\ sum = 89 * n => f = "moderate"
       /\ sum = 179 * n => f = "infrequent"
       /\ sum = 200 * n => f = "rare"

WitnessMean179 ==
  /\ inv.op = "getChangesTimeline"
  /\ inv.done
  /\ ReturnedEvents = 1
  /\ ReturnedDays = 179
  /\ inv.out.summary.changeFrequency = "infrequent"

\* ---------------------------------------------- SpecSiteUrls: getSiteUrls
\* The header row, the data rows and the resumption elements of the
\* simulated CDX answer.
CdxFields == <<"original", "timestamp", "statuscode", "mimetype", "digest">>
Originals == {"example.com/a", "blog.example.com/"}
DataRows ==
  {<<o, Timestamps[t], "200", "text/html", "d">> : o \in Originals, t \in DOMAIN Timestamps}
ResumeKeys == {"", "k1"}
NotAnArray == [isArray |-> FALSE, items |-> << >>]
ArrayOf(items) == [isArray |-> TRUE, items |-> items]

\* The limit sent upstream, which the index honours.
requestLimit(params) ==
  IF params.includeCaptureCounts
    THEN Min({(IF params.limit = 0 THEN 1000 ELSE params.limit) * 10, 100000})
  ELSE Min({IF params.limit = 0 THEN 1000 ELSE params.limit, 10000})

\* What the index can answer to params: at most requestLimit rows, and with
\* collapse=urlkey one row for a URL.
Answerable(params, rows) ==
  /\ Len(rows) <= requestLimit(params)
  /\ ~params.includeCaptureCounts =>
       \A i, j \in DOMAIN rows : i # j => rows[i][1] # rows[j][1]

SiteUrlsQueries ==
  [url : {"example.com"}, matchType : {"domain", "prefix"},
   includeSubdomains : BOOLEAN, includeCaptureCounts : BOOLEAN,
   limit : {1, 2}, sortBy : {"undefined", "oldest", "newest", "captures"}]

\* The params object handed to generateKey.
siteUrlsKey(params) ==
  generateKey("site-urls",
    <<<<"url", Str(params.url)>>,
      <<"matchType", Str(params.matchType)>>,
      <<"limit", Num(IF params.limit = 1 THEN "1" ELSE "2")>>,
      <<"includeSubdomains", Bool(params.includeSubdomains)>>,
      <<"includeCaptureCounts", Bool(params.includeCaptureCounts)>>,
      <<"sortBy", IF params.sortBy = "undefined" THEN JsUndefined
                  ELSE Str(params.sortBy)>>>>)

InitSiteUrls ==
  /\ InitRL
  /\ workload = {}
  /\ InitRetryIdle
  /\ InitKeyIdle
  /\ InitAvailIdle
  /\ cache \in {NewCache(NoFile), cacheInitialize(NewCache(NoFile), 0).cache}
  /\ cres = [op |-> "new", key |-> "", at |-> 0, pre |-> NewCache(NoFile),
             out |-> Return(JsUndefined)]
  /\ lastSet = << >>
  /\ \E params \in SiteUrlsQueries, n \in 0..MaxRows :
       \E rows \in [1..n -> DataRows] :
         /\ Answerable(params, rows)
         /\ \E result \in {NotAnArray, ArrayOf(<<CdxFields>> \o rows)}
                            \cup {ArrayOf(<<CdxFields>> \o rows \o <<<<"", k>>>>) :
                                    k \in ResumeKeys} :
              inv = [op |-> "getSiteUrls", done |-> FALSE, params |-> params,
                     result |-> result, out |-> Return(JsUndefined)]

\* getSiteUrls: generateKey, cache.get, `if (cached) return cached`, the CDX
\* query whose answer is inv.result, the response, cache.set and the return.
ApplyGetSiteUrls ==
  /\ inv.op = "getSiteUrls"
  /\ ~inv.done
  /\ LET key == siteUrlsKey(inv.params)
         g == cacheGet(cache, key, now)
         response == getSiteUrls(inv.params, inv.result)
         s == cacheSet(g.cache, key, Val(response), TtlOf("SITE_URLS"), now)
     IN IF g.out.tag = "throw"
          THEN cache' = g.cache /\ inv' = [inv EXCEPT !.done = TRUE, !.out = g.out]
        ELSE IF g.out.value.t = "val"
          THEN /\ cache' = g.cache
               /\ inv' = [inv EXCEPT !.done = TRUE, !.out = Return(g.out.value.v)]
        ELSE /\ cache' = s.cache
             /\ inv' = [inv EXCEPT !.done = TRUE,
                                   !.out = IF s.out.tag = "throw" THEN s.out
                                           ELSE Return(response)]
  /\ UNCHANGED <<now, requests, admissions, acq, workload, av, upstream, served,
                 rt, cres, lastSet, kin, kout>>

NextSiteUrls == ApplyGetSiteUrls

SpecSiteUrls == InitSiteUrls /\ [][NextSiteUrls]_vars

\* A getSiteUrls call that returned a response.
SiteUrlsReturned ==
  inv.op = "getSiteUrls" /\ inv.done /\ inv.out.tag = "return"

\* The upstream array ends with a two-element array whose first element is
\* the empty string.
EndsWithResumeElement ==
  /\ inv.result.isArray
  /\ Len(inv.result.items) > 0
  /\ Len(inv.result.items[Len(inv.result.items)]) = 2
  /\ inv.result.items[Len(inv.result.items)][1] = ""

LastItem == inv.result.items[Len(inv.result.items)]

\* C12 as stated: an array ending with ["", key] gives the data rows without
\* that element and the header, truncated true and resumeKey = key; any other
\* answer gives truncated false and no resumeKey.
ResumeElementMeansTruncated ==
  SiteUrlsReturned =>
    IF EndsWithResumeElement
      THEN /\ parseRows(inv.result).rows =
                SubSeq(inv.result.items, 2, Len(inv.result.items) - 1)
           /\ inv.out.value.totalCaptures = Len(inv.result.items) - 2
           /\ inv.out.value.truncated
           /\ inv.out.value.resumeKey = Str(LastItem[2])
    ELSE /\ ~inv.out.value.truncated
         /\ inv.out.value.resumeKey = JsUndefined

\* C12 amended: the element is always stripped and recorded as resumeKey, and
\* truncated is true exactly when the key it carries is a non-empty string.
ResumeElementStripped ==
  SiteUrlsReturned =>
    IF EndsWithResumeElement
      THEN /\ parseRows(inv.result).rows =
                SubSeq(inv.result.items, 2, Len(inv.result.items) - 1)
           /\ inv.out.value.totalCaptures = Len(inv.result.items) - 2
           /\ inv.out.value.truncated = (LastItem[2] # "")
           /\ inv.out.value.resumeKey = Str(LastItem[2])
    ELSE /\ ~inv.out.value.truncated
         /\ inv.out.value.resumeKey = JsUndefined

WitnessResumeKeyTaken ==
  /\ SiteUrlsReturned
  /\ EndsWithResumeElement
  /\ Len(inv.result.items) = 4
  /\ inv.out.value.totalCaptures = 2
  /\ inv.out.value.truncated
  /\ inv.out.value.resumeKey = Str("k1")


\* C18: the urls a getSiteUrls call returns are the first `limit` entries of
\* the list as it stands after aggregation and after the requested re-sort
\* (calls whose subdomain filter is off, so that nothing else removes entries).
LimitAfterSort ==
  (/\ SiteUrlsReturned
   /\ (inv.params.matchType = "prefix" \/ inv.params.includeSubdomains)) =>
    LET rows == parseRows(inv.result).rows
        listed == IF inv.params.includeCaptureCounts
                    THEN aggregateByUrl(rows).urls ELSE collapsedUrls(rows)
    IN inv.out.value.urls =
         applyLimit(sortSiteUrls(listed, inv.params.sortBy), inv.params.limit)


\* The CACHE_TTL property of the data class a cache key's prefix stands for.
TtlNameOf(prefix) ==
  CASE prefix = "availability" -> "AVAILABILITY"
    [] prefix = "snapshots" -> "SNAPSHOTS"
    [] prefix = "content" -> "SNAPSHOT_CONTENT"
    [] prefix = "timeline" -> "CDX_QUERIES"
    [] prefix = "site-urls" -> "SITE_URLS"

\* C17: every cache entry carries the TTL that CACHE_TTL defines for the data
\* class of its key (availability 3600, snapshots 86400, content 604800,
\* timeline 43200, site-urls a TTL of its own).
EntryHasClassTtl ==
  \A key \in DOMAIN cache.store :
    /\ TtlNameOf(key.prefix) \in DOMAIN CACHE_TTL
    /\ cache.store[key].ttl = CACHE_TTL[TtlNameOf(key.prefix)]


\* The endpoint identifier the callers of withRetry pass for each upstream
\* family ('available', 'cdx', 'web/content', and one that names none of
\* them), with the documented budget of the family.
Families ==
  {[endpoint |-> EpAvailable, maxRequests |-> 15],
   [endpoint |-> EpCdx, maxRequests |-> 10],
   [endpoint |-> EpWeb, maxRequests |-> 5],
   [endpoint |-> EpOther, maxRequests |-> 10]}

\* C16: the admitted calls of each family are the admissions recorded in the
\* family's own category, and any 60 s window ending at one of them holds at
\* most the documented number: 15 availability, 10 cdx, 5 content, 10 default.
FamilyBudgets ==
  \A f \in Families :
    LET c == getCategory(f.endpoint)
        calls == {i \in DOMAIN acq :
                    acq[i].endpoint = f.endpoint /\ acq[i].st = "admitted"}
        window(t) == {i \in DOMAIN admissions[c] :
                        admissions[c][i] > t - 60000 /\ admissions[c][i] <= t}
    IN /\ Len(admissions[c]) = Cardinality(calls)
       /\ \A k \in DOMAIN admissions[c] :
            Cardinality(window(admissions[c][k])) <= f.maxRequests

\* Fifteen availability lookups were admitted at once and a sixteenth waits.
WitnessSixteenthLookupWaits ==
  /\ Len(admissions["availability"]) = 15
  /\ \E i \in DOMAIN acq :
       acq[i].endpoint = EpAvailable /\ acq[i].st = "sleeping"


\* ------------------------------------- SpecTool: a wayback_get_site_urls call
\* The answers of the simulated CDX server to the query of getSiteUrls.
ToolResponses ==
  <<Resp(200, Json(ArrayOf(<<CdxFields,
                             <<"example.com/a", Timestamps[1], "200", "text/html", "d">>>>))),
    Resp(200, Json(NotAnArray)),
    Resp(200, Garbage),
    NoAnswer,
    Resp(404, EmptyText),
    Resp(429, EmptyText),
    Resp(500, EmptyText),
    Resp(503, EmptyText)>>

ToolQuery ==
  [url |-> "example.com", matchType |-> "domain", includeSubdomains |-> TRUE,
   includeCaptureCounts |-> FALSE, limit |-> 2, sortBy |-> "undefined"]

\* The CDX queries the server already issued in the current window (at time 0).
EarlierQueries == {0, 9}

InitTool ==
  /\ now = 0
  /\ acq = << >>
  /\ \E used \in EarlierQueries :
       /\ requests = IF used = 0 THEN << >>
                     ELSE [c \in {"cdx"} |-> [i \in 1..used |-> 0]]
       /\ admissions = [c \in Categories |->
                          IF c = "cdx" THEN [i \in 1..used |-> 0] ELSE << >>]
  /\ workload = {}
  /\ InitKeyIdle
  /\ InitAvailIdle
  /\ cache \in {NewCache(NoFile), cacheInitialize(NewCache(NoFile), 0).cache}
  /\ cres = [op |-> "new", key |-> "", at |-> 0, pre |-> NewCache(NoFile),
             out |-> Return(JsUndefined)]
  /\ lastSet = << >>
  /\ \E script \in [1..MaxScript -> DOMAIN ToolResponses] :
       upstream = [k \in {"op"} |-> [i \in 1..MaxScript |-> ToolResponses[script[i]]]]
  /\ served = [k \in {"op"} |-> 0]
  /\ rt = RtIdle
  /\ \E name \in {"wayback_get_site_urls", "wayback_get_urls"}, valid \in BOOLEAN :
       inv = [op |-> "callTool", done |-> FALSE, pc |-> "request", name |-> name,
              argsValid |-> valid, params |-> ToolQuery, failed |-> FALSE,
              out |-> Return(JsUndefined)]

\* The tool call ends with the text (or the exception) out; failed tells
\* whether it ended in a failure.
ToolEnds(out, failed) ==
  inv' = [inv EXCEPT !.done = TRUE, !.pc = "done", !.out = out, !.failed = failed]

\* The CallToolRequest handler: handlers.get(name), the unknown-tool answer,
\* else the handler: SiteUrlsQuerySchema.parse(args), and getSiteUrls up to
\* its await of withRetry(..., 'cdx').
CallTool ==
  /\ inv.op = "callTool"
  /\ inv.pc = "request"
  /\ LET g == cacheGet(cache, siteUrlsKey(inv.params), now) IN
       IF inv.name \notin ToolNames
         THEN ToolEnds(UnknownTool, TRUE) /\ UNCHANGED <<cache, rt>>
       ELSE IF ~inv.argsValid
         THEN ToolEnds(handler(Throw(ZodError)), TRUE) /\ UNCHANGED <<cache, rt>>
       ELSE IF g.out.tag = "throw"
         THEN ToolEnds(handler(g.out), TRUE) /\ cache' = g.cache /\ rt' = rt
       ELSE IF g.out.value.t = "val"
         THEN ToolEnds(handler(Return(g.out.value.v)), FALSE)
              /\ cache' = g.cache /\ rt' = rt
       ELSE /\ inv' = [inv EXCEPT !.pc = "api"]
            /\ cache' = g.cache
            /\ rt' = RtEnter("siteUrls", "op", EpCdx)
  /\ UNCHANGED <<now, requests, admissions, acq, workload, av, upstream, served,
                 cres, lastSet, kin, kout>>

\* withRetry ended: its exception leaves getSiteUrls and reaches the handler's
\* catch; its result is made into the response, cached and returned.
ToolResume ==
  /\ inv.op = "callTool"
  /\ inv.pc = "api"
  /\ rt.pc = "done"
  /\ IF rt.result.tag = "throw"
       THEN ToolEnds(handler(rt.result), TRUE) /\ cache' = cache
     ELSE LET response == getSiteUrls(inv.params, rt.result.value)
              s == cacheSet(cache, siteUrlsKey(inv.params), Val(response),
                            TtlOf("SITE_URLS"), now)
          IN /\ cache' = s.cache
             /\ IF s.out.tag = "throw" THEN ToolEnds(handler(s.out), TRUE)
                ELSE ToolEnds(handler(Return(response)), FALSE)
  /\ UNCHANGED <<now, requests, admissions, acq, workload, av, upstream, served,
                 rt, cres, lastSet, kin, kout>>

NextTool ==
  \/ CallTool
  \/ ToolResume
  \/ RetryAcquire
  \/ RetryLimiterWake
  \/ RetryInvoke
  \/ RetryBackoffDone

SpecTool == InitTool /\ [][NextTool]_vars

ErrorCodes ==
  {"NOT_FOUND", "RATE_LIMITED", "INVALID_URL", "INVALID_TIMESTAMP", "FETCH_FAILED",
   "PARSE_ERROR", "API_ERROR", "TIMEOUT", "UNKNOWN_ERROR", "UNKNOWN_TOOL"}

\* C14: a finished tool call has returned a JSON text and raised nothing; when
\* it failed (unknown tool, rejected arguments, an exception of the cache or
\* of withRetry) the document has an error with a code and a message.
ToolAlwaysAnswersJson ==
  (inv.op = "callTool" /\ inv.done) =>
    /\ inv.out.tag = "return"
    /\ inv.out.value.text = "json"
    /\ inv.failed =>
         /\ inv.out.value.doc.v.error.code \in ErrorCodes
         /\ inv.out.value.doc.v.error.message # ""

\* The upstream answered 429 three times and the tool reported the failure.
WitnessBusyReported ==
  /\ inv.op = "callTool"
  /\ inv.done
  /\ inv.failed
  /\ rt.pc = "done"
  /\ rt.attempt = 3
  /\ rt.lastError = HttpError(429)
  /\ inv.out.value.doc.v.error.code = "UNKNOWN_ERROR"

\* C15: when every attempt of withRetry was answered 429, the error the tool
\* returns carries the code RATE_LIMITED.
BusyReportedRateLimited ==
  (/\ inv.op = "callTool"
   /\ inv.done
   /\ rt.pc = "done"
   /\ rt.attempt = rt.maxRetries
   /\ \A i \in 1..rt.maxRetries : upstream["op"][i] = Resp(429, EmptyText)) =>
    /\ inv.failed
    /\ inv.out.value.doc.v.error.code = "RATE_LIMITED"


\* ------------------------------------------- withRetry: the other failures
\* The number of the attempt whose invocation is event j of the log.
AttemptOf(j) == Cardinality({i \in 1..j : rt.log[i][1] = "invoke"})

\* What the operation did with the answer of the invocation at event j.
OutcomeAt(j) == Operation(rt.op, AnswerAt(rt.key, rt.log[j][3]))

\* The invocation at event j is followed by a sleep of ms and nothing else:
\* the sleep is in progress, or it is the next event of the log.
SleepFollows(j, ms) ==
  IF j = Len(rt.log) THEN rt.pc = "backoff" /\ rt.wakeAt = now + ms
  ELSE rt.log[j + 1] = <<"sleep", ms, 0>>

\* The invocation at event j is the last event of the call, which ended with
\* result.
EndedAt(j, result) ==
  j = Len(rt.log) /\ rt.pc = "done" /\ rt.result = result

ServerErrorAt(j) ==
  rt.log[j][1] = "invoke" /\ rt.log[j][2] >= 500 /\ rt.log[j][2] # 503

OtherStatusAt(j) ==
  /\ rt.log[j][1] = "invoke"
  /\ rt.log[j][2] >= 300 /\ rt.log[j][2] < 500
  /\ rt.log[j][2] \notin {404, 429}

\* C22: an HTTP status that is none of 429, 503, 404 or >= 500 ends the call
\* on that attempt, with no sleep, raising API_ERROR with the status.
OtherStatusFailsAtOnce ==
  \A j \in DOMAIN rt.log :
    OtherStatusAt(j) =>
      EndedAt(j, Throw(WaybackApiError("API_ERROR", rt.log[j][2])))

\* A second attempt, made after a 500, was answered 403 and ended the call.
WitnessForbiddenEnds ==
  /\ rt.pc = "done"
  /\ Len(Invocations) = 2
  /\ Invocations[1][2] = 500 /\ Invocations[2][2] = 403
  /\ rt.result = Throw(WaybackApiError("API_ERROR", 403))

NoStatusAt(j) ==
  /\ rt.log[j][1] = "invoke"
  /\ OutcomeAt(j).tag = "throw"
  /\ ~isHttpError(OutcomeAt(j).value)

Persisted == cache.disk.exists /\ cache.disk.readable /\ cache.disk.doc = cache.store

\* The Cache operation just run changed the store of an initialized Cache:
\* set, delete, clear, or a get that found its entry expired or corrupt.
Mutated ==
  /\ cres.pre.initialized
  /\ \/ cres.op \in {"set", "delete", "clear"}
     \/ /\ cres.op = "get"
        /\ cres.key \in DOMAIN cres.pre.store
        /\ \/ Expired(cres.pre.store[cres.key], cres.at)
           \/ ~JsonParses(cres.pre.store[cres.key].data)

Initialized == cres.op = "initialize"

NoneExpired == \A k \in DOMAIN cache.store : ~Expired(cache.store[k], cres.at)

\* The cleanup of initialize found an expired entry in what it loaded.
SweptOnLoad ==
  \E k \in DOMAIN loadStore(cres.pre) : Expired(loadStore(cres.pre)[k], cres.at)

\* C25 as stated: after initialize, whatever was persisted before, no entry
\* of the store is expired and the persisted document exists and holds
\* exactly the in-memory store.
InitializeLeavesDocument == Initialized => (NoneExpired /\ Persisted)

\* C25 amended: after initialize no entry of the store is expired; the
\* document is rewritten only when an expired entry was swept (and the file
\* can be written), otherwise it is left as it was found, absent or
\* unreadable included.
InitializeSweepsAndSavesIfSwept ==
  Initialized =>
    /\ cache.initialized
    /\ NoneExpired
    /\ IF SweptOnLoad /\ cres.pre.disk.writable
         THEN Persisted
         ELSE cache.disk = cres.pre.disk

\* initialize read a document holding an expired entry and rewrote it.
WitnessExpiredSweptOnLoad ==
  /\ Initialized
  /\ cres.pre.disk.exists
  /\ cres.pre.disk.doc # << >>
  /\ SweptOnLoad
  /\ cache.store = << >>
  /\ Persisted

\* initialize found no document and left none.
WitnessNoDocumentAfterInitialize ==
  /\ Initialized
  /\ cache.initialized
  /\ cache.disk.writable
  /\ ~cache.disk.exists


\* Cache.get has just run on an entry whose data JSON.parse rejects.
GotCorrupt ==
  /\ cres.op = "get"
  /\ cres.pre.initialized
  /\ cres.key \in DOMAIN cres.pre.store
  /\ ~JsonParses(cres.pre.store[cres.key].data)

\* The entry is gone from the store and every other entry is as it was.
OnlyThatEntryDeleted == cache.store = Without(cres.pre.store, cres.key)

Numerals == [s \in {"200", "10"} |-> IF s = "200" THEN 200 ELSE 10]
parseIntOr(s, d) == IF s \in DOMAIN Numerals THEN Numerals[s] ELSE d

NoDate == Date(0, 0, 0)

\* getSnapshots once withRetry returned result: the rows after the header,
\* the snapshots and the response.
getSnapshots(params, result) ==
  LET rows == IF result.isArray /\ Len(result.items) > 0
                THEN Tail(result.items) ELSE << >>
      snapshots == [i \in DOMAIN rows |->
                      [timestamp |-> rows[i][1],
                       originalUrl |-> rows[i][2],
                       mimeType |-> OrDefault(rows[i][3], "text/html"),
                       statusCode |-> parseIntOr(rows[i][4], 200),
                       digest |-> rows[i][5],
                       length |-> parseIntOr(rows[i][6], 0)]]
  IN [url |-> params.url,
      totalSnapshots |-> Len(snapshots),
      dateRange |-> [first |-> IF Len(snapshots) > 0
                                 THEN snapshots[1].timestamp ELSE NoDate,
                     last |-> IF Len(snapshots) > 0
                                THEN snapshots[Len(snapshots)].timestamp ELSE NoDate],
      snapshots |-> snapshots]

\* A property that may be absent from a params object.
StrOrUndefined(x) == IF x = "undefined" THEN JsUndefined ELSE Str(x)

\* cache.generateKey('cdx', params) of getSnapshots.
snapshotsKey(q) ==
  generateKey("cdx",
    <<<<"url", Str(q.url)>>,
      <<"from", q.from>>,
      <<"to", q.to>>,
      <<"matchType", StrOrUndefined(q.matchType)>>,
      <<"statusFilter", StrOrUndefined(q.statusFilter)>>,
      <<"collapse", StrOrUndefined(q.collapse)>>,
      <<"limit", IF q.limit = "undefined" THEN JsUndefined ELSE Num(q.limit)>>>>)

\* The query getChangesTimeline hands to getSnapshots.
timelineSnapshotsQuery(params) ==
  [url |-> params.url, from |-> JsUndefined, to |-> JsUndefined,
   matchType |-> "exact", statusFilter |-> "200",
   collapse |-> IF params.granularity = "monthly" \/ params.granularity = "undefined"
                  THEN "monthly" ELSE "daily",
   limit |-> "1000"]

\* Mutant: the cache is never consulted.
cachedNever(c, key, t) == [cache |-> c, out |-> Return(JsNull)]

\* const cached = cache.get(cacheKey): what `if (cached) return cached` tests
cached(c, key, t) == cacheGet(c, key, t)

\* The entry of key can be served at t.
Live(c, key, t) ==
  /\ key \in DOMAIN c.store
  /\ ~Expired(c.store[key], t)
  /\ JsonParses(c.store[key].data)

\* The answers of the simulated index to the query of a CdxApi function.
CdxOutcomes == {"rows", "blank", "busy", "missing"}

SnapshotRows ==
  <<<<"timestamp", "original", "mimetype", "statuscode", "digest", "length">>,
    <<CaptureDates[1], "http://example.com", "", "200", "a", "10">>,
    <<CaptureDates[5], "http://example.com", "text/html", "-", "b", "10">>>>

SiteUrlRows ==
  <<CdxFields, <<"example.com/a", Timestamps[1], "200", "text/html", "d">>>>

CdxAnswer(fn, outcome) ==
  IF outcome = "rows"
    THEN Resp(200, Json(ArrayOf(IF fn = "siteUrls" THEN SiteUrlRows ELSE SnapshotRows)))
  ELSE IF outcome = "blank" THEN Resp(200, EmptyText)
  ELSE IF outcome = "busy" THEN Resp(503, EmptyText)
  ELSE Resp(404, EmptyText)

\* The calls a client makes: getSnapshots with a query of its own or with the
\* query getChangesTimeline uses, getSiteUrls, getChangesTimeline.
PlainQuery ==
  [url |-> "http://example.com", from |-> JsUndefined, to |-> JsUndefined,
   matchType |-> "undefined",
   statusFilter |-> "undefined", collapse |-> "undefined", limit |-> "undefined"]

TimelineParams == [url |-> "http://example.com", granularity |-> "monthly"]

CdxCalls ==
  {[fn |-> "getSnapshots", q |-> PlainQuery, key |-> snapshotsKey(PlainQuery)],
   [fn |-> "getSnapshots", q |-> timelineSnapshotsQuery(TimelineParams),
    key |-> snapshotsKey(timelineSnapshotsQuery(TimelineParams))],
   [fn |-> "getSiteUrls", q |-> PlainQuery, key |-> siteUrlsKey(ToolQuery)],
   [fn |-> "getChangesTimeline", q |-> timelineSnapshotsQuery(TimelineParams),
    key |-> timelineKey(TimelineParams)]}

CdxIdle ==
  [op |-> "cdxApi", done |-> FALSE, pc |-> "idle", n |-> 0,
   call |-> CHOOSE c \in CdxCalls : c.fn = "getSiteUrls",
   cache0 |-> NewCache(NoFile), t0 |-> 0, admitted0 |-> 0, served0 |-> 0,
   out |-> Return(JsUndefined)]

InitCdx ==
  /\ now = 0
  /\ acq = << >>
  /\ \E used \in EarlierQueries :
       /\ requests = IF used = 0 THEN << >>
                     ELSE [c \in {"cdx"} |-> [i \in 1..used |-> 0]]
       /\ admissions = [c \in Categories |->
                          IF c = "cdx" THEN [i \in 1..used |-> 0] ELSE << >>]
  /\ workload = {}
  /\ InitKeyIdle
  /\ InitAvailIdle
  /\ InitCacheReady
  /\ \E script \in [1..MaxScript -> CdxOutcomes] :
       upstream = [k \in {"siteUrls", "snapshots"} |->
                     [i \in 1..MaxScript |-> CdxAnswer(k, script[i])]]
  /\ served = [k \in {"siteUrls", "snapshots"} |-> 0]
  /\ rt = RtIdle
  /\ inv = CdxIdle

\* The call ends with out.
CdxEnds(out) ==
  inv' = [inv EXCEPT !.pc = "returned", !.done = TRUE, !.out = out, !.n = @ + 1]

\* getSnapshots after withRetry: the response, cache.set under the key of the
\* query, the response returned.
snapshotsEnd(c, q, result, t) ==
  LET response == getSnapshots(q, result)
      s == cacheSet(c, snapshotsKey(q), Val(response), TtlOf("SNAPSHOTS"), t)
  IN [cache |-> s.cache,
      out |-> IF s.out.tag = "throw" THEN s.out ELSE Return(response)]

\* getChangesTimeline after its getSnapshots returned got.
timelineEnd(c, params, got, t) ==
  IF got.tag = "throw" THEN [cache |-> c, out |-> got]
  ELSE LET response == getChangesTimeline(params, got.value.snapshots)
           s == cacheSet(c, timelineKey(params), Val(response),
                         TtlOf("CDX_QUERIES"), t)
       IN [cache |-> s.cache,
           out |-> IF s.out.tag = "throw" THEN s.out ELSE Return(response)]

\* getSiteUrls after withRetry.
siteUrlsEnd(c, params, result, t) ==
  LET response == getSiteUrls(params, result)
      s == cacheSet(c, siteUrlsKey(params), Val(response), TtlOf("SITE_URLS"), t)
  IN [cache |-> s.cache,
      out |-> IF s.out.tag = "throw" THEN s.out ELSE Return(response)]

\* A client calls a CdxApi function: generateKey, cache.get, the cached value
\* returned if there is one; else (getChangesTimeline entering getSnapshots,
\* which looks its own key up and may end the whole call from the cache) on
\* to the await of withRetry(..., 'cdx').
CdxCall(call) ==
  /\ inv.op = "cdxApi"
  /\ inv.pc \in {"idle", "returned"}
  /\ inv.n < MaxRetryCalls
  /\ LET g == cached(cache, call.key, now)
         started == [inv EXCEPT !.call = call, !.cache0 = cache, !.t0 = now,
                                !.admitted0 = Len(admissions["cdx"]),
                                !.served0 = served["siteUrls"] + served["snapshots"]]
         ended(out) == [started EXCEPT !.pc = "returned", !.done = TRUE,
                                       !.out = out, !.n = @ + 1]
         g2 == cached(g.cache, snapshotsKey(call.q), now)
         e == timelineEnd(g2.cache, TimelineParams, Return(g2.out.value.v), now)
     IN IF g.out.tag = "throw"
          THEN inv' = ended(g.out) /\ cache' = g.cache /\ rt' = rt
        ELSE IF g.out.value.t = "val"
          THEN inv' = ended(Return(g.out.value.v)) /\ cache' = g.cache /\ rt' = rt
        ELSE IF call.fn = "getChangesTimeline" /\ g2.out.tag = "throw"
          THEN inv' = ended(g2.out) /\ cache' = g2.cache /\ rt' = rt
        ELSE IF call.fn = "getChangesTimeline" /\ g2.out.value.t = "val"
          THEN inv' = ended(e.out) /\ cache' = e.cache /\ rt' = rt
        ELSE /\ inv' = [started EXCEPT !.pc = "await", !.done = FALSE]
             /\ cache' = IF call.fn = "getChangesTimeline" THEN g2.cache ELSE g.cache
             /\ rt' = IF call.fn = "getSiteUrls"
                        THEN RtEnter("siteUrls", "siteUrls", EpCdx)
                        ELSE RtEnter("snapshots", "snapshots", EpCdx)
  /\ UNCHANGED <<now, requests, admissions, acq, workload, av, upstream, served,
                 cres, lastSet, kin, kout>>

\* withRetry ended: its exception leaves the function; its result is made
\* into the response, cached and returned.
CdxResume ==
  /\ inv.op = "cdxApi"
  /\ inv.pc = "await"
  /\ rt.pc = "done"
  /\ LET fn == inv.call.fn
         sn == snapshotsEnd(cache, inv.call.q, rt.result.value, now)
         e == IF rt.result.tag = "throw" THEN [cache |-> cache, out |-> rt.result]
              ELSE IF fn = "getSiteUrls"
                THEN siteUrlsEnd(cache, ToolQuery, rt.result.value, now)
              ELSE IF fn = "getSnapshots" THEN sn
              ELSE timelineEnd(sn.cache, TimelineParams, sn.out, now)
     IN CdxEnds(e.out) /\ cache' = e.cache
  /\ UNCHANGED <<now, requests, admissions, acq, workload, av, upstream, served,
                 rt, cres, lastSet, kin, kout>>

\* Time passes between two calls: half a day and a second.
CdxElapse ==
  /\ inv.op = "cdxApi"
  /\ inv.pc = "returned"
  /\ now' = now + 43201000
  /\ inv' = [inv EXCEPT !.pc = "idle"]
  /\ UNCHANGED <<requests, admissions, acq, workload, av, upstream, served, rt,
                 cacheVars, kin, kout>>

NextCdx ==
  \/ \E call \in CdxCalls : CdxCall(call)
  \/ CdxResume
  \/ CdxElapse
  \/ RetryAcquire
  \/ RetryLimiterWake
  \/ RetryInvoke
  \/ RetryBackoffDone

SpecCdx == InitCdx /\ [][NextCdx]_vars

\* A CdxApi call has just returned or raised.
CdxReturned == inv.op = "cdxApi" /\ inv.pc = "returned"

\* Requests admitted by the limiter and requests sent upstream since the call
\* began.
NoTraffic ==
  /\ Len(admissions["cdx"]) = inv.admitted0
  /\ served["siteUrls"] + served["snapshots"] = inv.served0

WitnessMissCached ==
  /\ CdxReturned
  /\ ~Live(inv.cache0, inv.call.key, inv.t0)
  /\ inv.out.tag = "return"
  /\ ~NoTraffic
  /\ inv.call.fn = "getChangesTimeline"


\* ------------------------------------ checkAvailability: what is cached
\* A checkAvailabilityInternal call answered from the cache: no withRetry,
\* hence no admission and no request.
FromCache(call) ==
  /\ call.cached.t = "val"
  /\ call.available = NoResult
  /\ call.cdx = NoResult

\* A finished check that returned a variant-merged result.
Merged(c) == c.outcome.tag = "return" /\ c.outcome.value.checkedVariant # NoUrl

VariantOnlyWhenNotFound ==
  \A i \in DOMAIN av.checks :
    LET c == av.checks[i] IN
      /\ Len(c.calls) \in {1, 2}
      /\ c.calls[1].url = c.url
      /\ Len(c.calls) = 2 =>
           /\ av.checkWwwVariant # "false"
           /\ ~ReportedArchived(c.calls[1])
           /\ c.calls[2].url = getWwwVariant(c.url)
      /\ (ReportedArchived(c.calls[1]) \/ av.checkWwwVariant = "false") =>
           /\ Len(c.calls) = 1
           /\ c.outcome.tag = "return" => c.outcome.value.checkedVariant = NoUrl

\* With variant checking enabled, an archived URL was answered by the
\* Availability API and no variant was looked up.
WitnessArchivedNoVariant ==
  \E i \in DOMAIN av.checks :
    /\ av.checkWwwVariant = "true"
    /\ av.checks[i].url.s = "url"
    /\ av.checks[i].calls[1].cached.t # "val"
    /\ ReportedArchived(av.checks[i].calls[1])
    /\ Len(av.checks[i].calls) = 1
    /\ av.checks[i].outcome.tag = "return"

\* With variant checking disabled, a URL that was not found.
WitnessDisabledNoVariant ==
  \E i \in DOMAIN av.checks :
    /\ av.checkWwwVariant = "false"
    /\ av.checks[i].url.s = "url"
    /\ ~ReportedArchived(av.checks[i].calls[1])
    /\ av.checks[i].outcome.tag = "return"
    /\ ~av.checks[i].outcome.value.isArchived


\* ------------------------------------------ CdxApi.findClosestSnapshot
\* A 14-digit timestamp is its first eight digits and its last six, as
\* numbers: parseInt of it is date * 10^6 + time.
Ts(date, time) == [date |-> date, time |-> time]

\* A target the caller gives: len digits, whose first (at most eight) digits
\* read head and whose digits past the eighth read time.
Target(len, head, time) == [len |-> len, head |-> head, time |-> time]

\* normalizeTimestamp of a string of 1 to 14 digits: input.padEnd(14, '0')
normalizeTimestamp(input) ==
  Ts(IF input.len < 8 THEN input.head * 10 ^ (8 - input.len) ELSE input.head,
     input.time)

\* Math.abs(parseInt(a, 10) - parseInt(b, 10)), in units of 10^6 and a rest.
AbsDiff(a, b) ==
  LET aIsLarger == a.date > b.date \/ (a.date = b.date /\ a.time >= b.time)
      l == IF aIsLarger THEN a ELSE b
      m == IF aIsLarger THEN b ELSE a
  IN IF l.time >= m.time
       THEN [hi |-> l.date - m.date, lo |-> l.time - m.time]
       ELSE [hi |-> l.date - m.date - 1, lo |-> l.time - m.time + 1000000]

\* diff < closestDiff
Less(d, e) == d.hi < e.hi \/ (d.hi = e.hi /\ d.lo < e.lo)

\* The loop of findClosestByTimestamp from snapshot i on.
RECURSIVE ClosestFrom(_, _, _, _)
ClosestFrom(snapshots, i, closest, targetNum) ==
  IF i > Len(snapshots) THEN closest
  ELSE ClosestFrom(snapshots, i + 1,
                   IF Less(AbsDiff(snapshots[i].timestamp, targetNum),
                           AbsDiff(closest.timestamp, targetNum))
                     THEN snapshots[i] ELSE closest,
                   targetNum)

\* Mutant: the last snapshot of the listing is taken for the closest.
findClosestByTimestampLast(snapshots, targetTimestamp) ==
  snapshots[Len(snapshots)]

\* CdxApi.findClosestByTimestamp (targetTimestamp has its 14 digits, which
\* padEnd(14, '0') leaves as they are)
findClosestByTimestamp(snapshots, targetTimestamp) ==
  ClosestFrom(snapshots, 1, snapshots[1], targetTimestamp)

\* The two queries of findClosestSnapshot; a string of digits is written as
\* the number it reads.
narrowQuery(url, normalized) ==
  [url |-> url, from |-> Str(normalized.date), to |-> JsUndefined,
   matchType |-> "exact", statusFilter |-> "200", collapse |-> "none",
   limit |-> "10"]
broaderQuery(url, normalized) ==
  [url |-> url, from |-> Str(normalized.date \div 10000),
   to |-> Str(normalized.date \div 10000 + 1),
   matchType |-> "exact", statusFilter |-> "200", collapse |-> "monthly",
   limit |-> "50"]

\* Mutant: the broader query is made whatever the first one returned.
widenAlways(result) == TRUE

\* result.snapshots.length === 0
widen(result) == Len(result.snapshots) = 0

\* getSnapshots(q) on a cache without its entry, once withRetry ended with
\* outcome: the exception leaves it, the result is made into the response.
getSnapshotsAfter(c, q, outcome, t) ==
  IF outcome.tag = "throw" THEN [cache |-> c, out |-> outcome]
  ELSE snapshotsEnd(c, q, outcome.value, t)

\* findClosestSnapshot, where withRetry ends as got.narrow for the first
\* query and as got.broad for the broader one: the outcome, the queries made
\* in order, and the cache.
findClosestSnapshot(c, url, targetTimestamp, got, t) ==
  LET normalized == normalizeTimestamp(targetTimestamp)
      nq == narrowQuery(url, normalized)
      bq == broaderQuery(url, normalized)
      first == getSnapshotsAfter(c, nq, got.narrow, t)
      second == getSnapshotsAfter(first.cache, bq, got.broad, t)
  IN IF first.out.tag = "throw"
       THEN [out |-> first.out, queries |-> <<nq>>, cache |-> first.cache]
     ELSE IF widen(first.out.value)
       THEN [out |-> IF second.out.tag = "throw" THEN second.out
                     ELSE IF Len(second.out.value.snapshots) = 0 THEN Return(JsNull)
                     ELSE Return(Val(findClosestByTimestamp(
                                       second.out.value.snapshots, normalized))),
             queries |-> <<nq, bq>>,
             cache |-> second.cache]
     ELSE [out |-> Return(Val(findClosestByTimestamp(first.out.value.snapshots,
                                                    normalized))),
           queries |-> <<nq>>,
           cache |-> first.cache]

\* The captures of http://example.com the simulated index may hold.
Captures ==
  <<Ts(20191220, 0), Ts(20200105, 0), Ts(20200110, 0), Ts(20200115, 120000),
    Ts(20200115, 130000), Ts(20200120, 0), Ts(20210301, 0)>>

Targets ==
  {Target(4, 2020, 0), Target(8, 20200115, 0), Target(14, 20200115, 125000)}

\* The rows the index answers for the captures chosen, oldest first.
RECURSIVE CaptureRows(_)
CaptureRows(chosen) ==
  IF chosen = {} THEN << >>
  ELSE LET first == Min(chosen) IN
    <<<<Captures[first], "http://example.com", "text/html", "200", "a", "10">>>>
      \o CaptureRows(chosen \ {first})

\* What the index can answer to a query: captures not before its from and,
\* when it has a to, of a year not after it.
InRange(q, ts) ==
  IF q.to = JsUndefined THEN ts.date >= q.from.v
  ELSE ts.date \div 10000 >= q.from.v /\ ts.date \div 10000 <= q.to.v

\* A getSnapshots call ends with the failure of withRetry, or with the
\* response for the rows answered, which it caches.
GetOutcomes == {"rows", "fails"}

InitClosest ==
  /\ InitRL
  /\ workload = {}
  /\ InitRetryIdle
  /\ InitKeyIdle
  /\ InitAvailIdle
  /\ InitCacheReady
  /\ \E target \in Targets, narrow, broad \in SUBSET DOMAIN Captures,
        how \in [{"narrow", "broad"} -> GetOutcomes] :
       /\ Cardinality(narrow) <= MaxSnapshots
       /\ Cardinality(broad) <= MaxSnapshots
       /\ \A i \in narrow :
            InRange(narrowQuery("http://example.com", normalizeTimestamp(target)),
                    Captures[i])
       /\ \A i \in broad :
            InRange(broaderQuery("http://example.com", normalizeTimestamp(target)),
                    Captures[i])
       /\ inv = [op |-> "findClosestSnapshot", done |-> FALSE,
                 url |-> "http://example.com", target |-> target,
                 narrow |-> CaptureRows(narrow), broad |-> CaptureRows(broad),
                 how |-> how, queries |-> << >>, out |-> Return(JsNull)]

\* findClosestSnapshot run to its end.
ApplyFindClosestSnapshot ==
  /\ inv.op = "findClosestSnapshot"
  /\ ~inv.done
  /\ LET got == [w \in {"narrow", "broad"} |->
                    IF inv.how[w] = "fails"
                      THEN Throw(WaybackApiError("API_ERROR", 500))
                      ELSE Return(ArrayOf(<<SnapshotRows[1]>> \o inv[w]))]
         r == findClosestSnapshot(cache, inv.url, inv.target, got, now)
     IN /\ cache' = r.cache
        /\ inv' = [inv EXCEPT !.done = TRUE, !.queries = r.queries, !.out = r.out]
  /\ UNCHANGED <<now, requests, admissions, acq, workload, av, upstream, served,
                 rt, cres, lastSet, kin, kout>>

NextClosest == ApplyFindClosestSnapshot

SpecClosest == InitClosest /\ [][NextClosest]_vars

\* The snapshots the index answered to the narrow and to the broader query.
NarrowSet == {inv.narrow[i][1] : i \in DOMAIN inv.narrow}
BroadSet == {inv.broad[i][1] : i \in DOMAIN inv.broad}

\* ts is among candidates and none of them is nearer the target.
Nearest(ts, candidates) ==
  /\ ts \in candidates
  /\ \A o \in candidates :
       ~Less(AbsDiff(o, normalizeTimestamp(inv.target)),
             AbsDiff(ts, normalizeTimestamp(inv.target)))

\* C30: the broader query is made only if the narrow one returned no
\* snapshot; none is returned only if both returned none; otherwise the
\* snapshot returned is one of the first non-empty set, at the least
\* absolute numeric distance from the target.
ClosestOfFirstNonEmpty ==
  (inv.op = "findClosestSnapshot" /\ inv.done) =>
    /\ Len(inv.queries) \in {1, 2}
    /\ inv.queries[1].collapse = "none"
    /\ Len(inv.queries) = 2 =>
         /\ inv.queries[2].collapse = "monthly"
         /\ inv.how["narrow"] = "rows"
         /\ NarrowSet = {}
    /\ inv.out = Return(JsNull) =>
         /\ inv.how = [w \in {"narrow", "broad"} |-> "rows"]
         /\ NarrowSet = {}
         /\ BroadSet = {}
    /\ (inv.out.tag = "return" /\ inv.out # Return(JsNull)) =>
         Nearest(inv.out.value.v.timestamp,
                 IF NarrowSet # {} THEN NarrowSet ELSE BroadSet)

\* Two snapshots of the narrow listing are equally near the target and the
\* broader query was not made.
WitnessNearestOfTie ==
  /\ inv.op = "findClosestSnapshot"
  /\ inv.done
  /\ Len(inv.queries) = 1
  /\ inv.target.len = 14
  /\ NarrowSet = {Captures[4], Captures[5], Captures[6]}
  /\ inv.out = Return(Val(getSnapshots([url |-> inv.url],
                            ArrayOf(<<SnapshotRows[1]>> \o inv.narrow)).snapshots[1]))

\* The narrow listing was empty and the nearest of the broader one returned.
WitnessBroaderUsed ==
  /\ inv.op = "findClosestSnapshot"
  /\ inv.done
  /\ Len(inv.queries) = 2
  /\ inv.target.len = 8
  /\ BroadSet = {Captures[2], Captures[3]}
  /\ inv.out.tag = "return"
  /\ inv.out.value.v.timestamp = Captures[3]


\* findClosestSnapshot answered from its narrow query.
AnsweredFromNarrow ==
  /\ inv.op = "findClosestSnapshot"
  /\ inv.done
  /\ Len(inv.queries) = 1
  /\ inv.out.tag = "return"

\* C31: a snapshot returned from the narrow query was captured on the
\* calendar day (the first eight digits) of the target.
NarrowAnswerSameDay ==
  AnsweredFromNarrow =>
    inv.out.value.v.timestamp.date = normalizeTimestamp(inv.target).date

\* The narrow query has a from and no to: what it returns is of the target's
\* day or of a later one.
NarrowAnswerNotEarlier ==
  AnsweredFromNarrow =>
    /\ inv.queries[1].to = JsUndefined
    /\ inv.out.value.v.timestamp.date >= normalizeTimestamp(inv.target).date

\* The target is 2020-01-15 and the snapshot returned is of 2020-01-20.
WitnessLaterDayReturned ==
  /\ AnsweredFromNarrow
  /\ inv.target.len = 8
  /\ NarrowSet = {Captures[6]}
  /\ inv.out.value.v.timestamp = Captures[6]

\* ------------------------------------------ getSiteUrls: capture counts
\* A getSiteUrls call with capture counts requested returned its response.
CountsReturned == SiteUrlsReturned /\ inv.params.includeCaptureCounts

\* The rows getSiteUrls parsed from the answer, and their aggregation.
ParsedRows == parseRows(inv.result).rows
Aggregated == aggregateByUrl(ParsedRows)
RowsOf(url) == {i \in DOMAIN ParsedRows : ParsedRows[i][1] = url}

\* C32: the aggregation has one entry for each URL of the parsed rows, with
\* the number of its rows, the least and the greatest of their timestamps;
\* totalCaptures is the number of parsed rows; the list is in descending
\* order of captureCount; and the response is made from it.
AggregatedByUrl ==
  CountsReturned =>
    LET urls == Aggregated.urls IN
      /\ {urls[k].url : k \in DOMAIN urls} = {ParsedRows[i][1] : i \in DOMAIN ParsedRows}
      /\ \A k, l \in DOMAIN urls : urls[k].url = urls[l].url => k = l
      /\ \A k \in DOMAIN urls :
           /\ urls[k].captureCount = Cardinality(RowsOf(urls[k].url))
           /\ \E i \in RowsOf(urls[k].url) : ParsedRows[i][2] = urls[k].firstCapture
           /\ \E i \in RowsOf(urls[k].url) : ParsedRows[i][2] = urls[k].lastCapture
           /\ \A i \in RowsOf(urls[k].url) :
                /\ TsRank(urls[k].firstCapture) <= TsRank(ParsedRows[i][2])
                /\ TsRank(urls[k].lastCapture) >= TsRank(ParsedRows[i][2])
      /\ \A k, l \in DOMAIN urls : k < l => urls[k].captureCount >= urls[l].captureCount
      /\ Aggregated.totalCaptures = Len(ParsedRows)
      /\ inv.out.value.totalCaptures = Len(ParsedRows)
      /\ \A k \in DOMAIN inv.out.value.urls :
           \E l \in DOMAIN urls : inv.out.value.urls[k] = urls[l]
      /\ (inv.params.sortBy = "undefined" /\ inv.params.matchType = "prefix"
            /\ Len(urls) <= inv.params.limit) => inv.out.value.urls = urls

\* A URL captured twice was met after a URL captured once and is listed
\* before it, with both its timestamps.
WitnessCountedAndOrdered ==
  /\ CountsReturned
  /\ Len(ParsedRows) = 3
  /\ ParsedRows[1][1] # ParsedRows[2][1]
  /\ ParsedRows[2][1] = ParsedRows[3][1]
  /\ ParsedRows[2][2] # ParsedRows[3][2]
  /\ inv.params.sortBy = "undefined"
  /\ inv.params.matchType = "prefix"
  /\ inv.params.limit = 2
  /\ Len(inv.out.value.urls) = 2
  /\ inv.out.value.urls[1].url = ParsedRows[2][1]
  /\ inv.out.value.urls[1].captureCount = 2
  /\ inv.out.value.urls[1].firstCapture # inv.out.value.urls[1].lastCapture

\* ------------------------------------- getChangesTimeline: change events
\* A getChangesTimeline call returned.
TimelineReturned == inv.op = "getChangesTimeline" /\ inv.done

\* The positions of the listing whose digest differs from the one before.
ChangedAt ==
  {i \in 2..Len(inv.snapshots) : inv.snapshots[i - 1].digest # inv.snapshots[i].digest}

\* The k-th of them in listing order.
NthChange(k) == CHOOSE i \in ChangedAt : Cardinality({j \in ChangedAt : j <= i}) = k

\* The event of the change at position i of the listing.
EventOfPair(e, i) ==
  /\ e.timestamp = inv.snapshots[i].timestamp
  /\ e.digestAfter = inv.snapshots[i].digest
  /\ e.previousTimestamp = inv.snapshots[i - 1].timestamp
  /\ e.digestBefore = inv.snapshots[i - 1].digest

\* With daily, monthly or no granularity: one event for each adjacent pair
\* of differing digests, in listing order, and no other.
OneEventPerChange ==
  (TimelineReturned /\ inv.params.granularity # "weekly") =>
    /\ Len(inv.out.changeEvents) = Cardinality(ChangedAt)
    /\ \A k \in DOMAIN inv.out.changeEvents :
         EventOfPair(inv.out.changeEvents[k], NthChange(k))
    /\ inv.out.totalChanges = Len(inv.out.changeEvents)
    /\ inv.out.totalSnapshots = Len(inv.snapshots)

\* C33 as stated: OneEventPerChange, and totalChanges is at most
\* totalSnapshots - 1.
ChangesBelowSnapshots ==
  /\ OneEventPerChange
  /\ (TimelineReturned /\ inv.params.granularity # "weekly") =>
       inv.out.totalChanges <= inv.out.totalSnapshots - 1

\* C33 amended: totalChanges is at most totalSnapshots - 1 when there is a
\* snapshot, and 0 for the empty listing.
ChangesBelowSnapshotsIfAny ==
  /\ OneEventPerChange
  /\ (TimelineReturned /\ inv.params.granularity # "weekly") =>
       IF inv.out.totalSnapshots = 0 THEN inv.out.totalChanges = 0
       ELSE inv.out.totalChanges <= inv.out.totalSnapshots - 1

\* Of three snapshots the last two have the same digest: one event, of the
\* first pair.
WitnessOneChangeOfTwoPairs ==
  /\ TimelineReturned
  /\ inv.params.granularity = "daily"
  /\ Len(inv.snapshots) = 3
  /\ ChangedAt = {2}
  /\ Len(inv.out.changeEvents) = 1
  /\ inv.out.changeEvents[1].digestBefore = "a"

\* The listing is empty: no snapshot and no change.
WitnessEmptyListing ==
  /\ TimelineReturned
  /\ inv.params.granularity = "daily"
  /\ inv.out.totalSnapshots = 0
  /\ inv.out.totalChanges = 0

\* The indices (from 1) the weekly filter keeps of n daily events: those
\* whose index from 0 is a multiple of 7, and the last.
WeeklyKept(n) == {k \in 1..n : (k - 1) % 7 = 0 \/ k = n}
NthKept(m, n) == CHOOSE k \in WeeklyKept(n) : Cardinality({j \in WeeklyKept(n) : j <= k}) = m

\* C34: with weekly granularity the events returned are, in order, the daily
\* change events at the kept indices; totalChanges and the summary are those
\* of the returned events.
WeeklyKeepsEverySeventhAndLast ==
  (TimelineReturned /\ inv.params.granularity = "weekly") =>
    LET n == Cardinality(ChangedAt)
        kept == inv.out.changeEvents
        sum == ReturnedDays
        count == IF Len(kept) > 0 THEN Len(kept) ELSE 1
    IN /\ Len(kept) = Cardinality(WeeklyKept(n))
       /\ \A m \in DOMAIN kept : EventOfPair(kept[m], NthChange(NthKept(m, n)))
       /\ inv.out.totalChanges = Len(kept)
       /\ inv.out.summary.averageTimeBetweenChanges = formatDaysToHuman(sum, count)
       /\ inv.out.summary.changeFrequency = calculateFrequency(sum, count)
       /\ inv.out.summary.mostActiveMonth = findMostActiveMonth(kept)

\* Of ten daily events the first, the eighth and the last were kept.
WitnessWeeklyThreeOfTen ==
  /\ TimelineReturned
  /\ inv.params.granularity = "weekly"
  /\ Cardinality(ChangedAt) = 10
  /\ Len(inv.out.changeEvents) = 3
  /\ inv.out.changeEvents[2].timestamp = inv.snapshots[9].timestamp
  /\ inv.out.changeEvents[3].timestamp = inv.snapshots[11].timestamp
  /\ inv.out.totalChanges = 3

\* C40: a listing without a change (fewer than two snapshots, or all digests
\* equal) gives totalChanges 0, no event, and the summary of a mean interval
\* of 0: 'N/A', 'less than a day', 'very_frequent'.
NoChangeSummary ==
  (TimelineReturned /\ ChangedAt = {}) =>
    /\ inv.out.totalChanges = 0
    /\ inv.out.changeEvents = << >>
    /\ inv.out.summary.mostActiveMonth = <<"N/A">>
    /\ inv.out.summary.averageTimeBetweenChanges = <<0, "less than a day">>
    /\ inv.out.summary.changeFrequency = "very_frequent"

\* Three snapshots of one digest, listed weekly.
WitnessAllDigestsEqual ==
  /\ TimelineReturned
  /\ inv.params.granularity = "weekly"
  /\ Len(inv.snapshots) = 3
  /\ ChangedAt = {}
  /\ inv.out.totalSnapshots = 3
  /\ inv.out.summary.changeFrequency = "very_frequent"

\* ------------------------- SpecCheck: a wayback_check_availability call
\* A timestamp string that is no timestamp.
MalformedTs == <<"y", "e", "s">>

\* The arguments a client may send: url a URL, a string that is no URL, or a
\* number; timestamp absent, a timestamp, another string, or a number;
\* checkWwwVariant absent, a boolean, or a string.
CheckArgs ==
  [url : {Str(UrlString(FALSE, FALSE)), Str(NotAUrl), Num("1")},
   timestamp : {JsUndefined, Str(Ts4), Str(MalformedTs), Num("1")},
   checkWwwVariant : {JsUndefined, Bool(TRUE), Bool(FALSE), Str("yes")}]

\* AvailabilityQuerySchema.parse succeeds: url is z.string().url(),
\* timestamp z.string().optional(), checkWwwVariant z.boolean().optional().
AvailabilityQueryValid(args) ==
  /\ args.url.t = "string"
  /\ args.url.v.s = "url"
  /\ args.timestamp.t \in {"undefined", "string"}
  /\ args.checkWwwVariant.t \in {"undefined", "boolean"}

\* Mutant: the schema asks nothing of url but that it be a string.
AvailabilityQueryParseAnyString(args) ==
  IF args.url.t = "string" /\ args.timestamp.t \in {"undefined", "string"}
       /\ args.checkWwwVariant.t \in {"undefined", "boolean"}
    THEN Return([url |-> args.url.v, timestamp |-> args.timestamp,
                 checkWwwVariant |-> IF args.checkWwwVariant.t = "undefined"
                                       THEN "true" ELSE args.checkWwwVariant.v])
  ELSE Throw(ZodError)

\* AvailabilityQuerySchema.parse(args): the params (checkWwwVariant defaults
\* to true), or a ZodError.
AvailabilityQueryParse(args) ==
  IF AvailabilityQueryValid(args)
    THEN Return([url |-> args.url.v, timestamp |-> args.timestamp,
                 checkWwwVariant |-> IF args.checkWwwVariant.t = "undefined"
                                       THEN "true" ELSE args.checkWwwVariant.v])
  ELSE Throw(ZodError)

InitCheck ==
  /\ now = 0
  /\ acq = << >>
  /\ \E used \in EarlierQueries :
       /\ requests = IF used = 0 THEN << >>
                     ELSE [c \in {"cdx"} |-> [i \in 1..used |-> 0]]
       /\ admissions = [c \in Categories |->
                          IF c = "cdx" THEN [i \in 1..used |-> 0] ELSE << >>]
  /\ workload = {}
  /\ InitKeyIdle
  /\ InitCacheReady
  /\ \E ap \in DOMAIN AvailabilityScripts, aw \in DOMAIN WwwAvailabilityScripts,
        cp \in DOMAIN CdxScripts, cw \in DOMAIN WwwCdxScripts :
       upstream = Upstream(AvailabilityScripts[ap], WwwAvailabilityScripts[aw],
                           CdxScripts[cp], WwwCdxScripts[cw])
  /\ served = [k \in AvailRequests |-> 0]
  /\ rt = RtIdle
  /\ av = AvIdle
  /\ \E args \in CheckArgs :
       inv = [op |-> "checkTool", done |-> FALSE, pc |-> "request", args |-> args,
              requests0 |-> requests, admissions0 |-> admissions, cache0 |-> cache,
              failed |-> FALSE, out |-> Return(JsUndefined)]

\* The wayback_check_availability handler up to the first await of
\* checkAvailability: the schema parse, whose error goes to the catch block.
CheckToolCall ==
  /\ inv.op = "checkTool"
  /\ inv.pc = "request"
  /\ LET p == AvailabilityQueryParse(inv.args) IN
       IF p.tag = "throw"
         THEN ToolEnds(handler(p), TRUE) /\ av' = av
         ELSE /\ inv' = [inv EXCEPT !.pc = "api"]
              /\ av' = checkBulkAvailability(<<p.value.url>>, p.value.timestamp,
                                             p.value.checkWwwVariant)
  /\ UNCHANGED <<now, requests, admissions, acq, workload, upstream, served, rt,
                 cacheVars>>

\* checkAvailability ended: JSON.stringify(result), or the catch block.
CheckToolResume ==
  /\ inv.op = "checkTool"
  /\ inv.pc = "api"
  /\ av.pc = "done"
  /\ ToolEnds(handler(av.checks[1].outcome), av.checks[1].outcome.tag = "throw")
  /\ UNCHANGED <<now, requests, admissions, acq, workload, av, upstream, served,
                 rt, cacheVars>>

NextCheck ==
  \/ CheckToolCall
  \/ CheckToolResume
  \/ AvInternal
  \/ AvAvailabilityDone
  \/ AvCdxDone
  \/ RetryAcquire
  \/ RetryLimiterWake
  \/ RetryInvoke
  \/ RetryBackoffDone

SpecCheck == InitCheck /\ [][NextCheck]_vars

\* The call has ended.
CheckToolEnded == inv.op = "checkTool" /\ inv.done

\* Nothing was admitted by the rate limiter, nothing requested upstream and
\* the cache is as it was when the call came in.
NothingDone ==
  /\ requests = inv.requests0
  /\ admissions = inv.admissions0
  /\ \A k \in DOMAIN served : served[k] = 0
  /\ cache = inv.cache0
  /\ rt = RtIdle

\* The text returned is an error body.
ErrorBody ==
  /\ inv.out.tag = "return"
  /\ inv.failed
  /\ inv.out.value.doc.v.error.code \in ErrorCodes

\* An argument is malformed: url is no URL, timestamp is present and is no
\* timestamp, or a parameter has not the type asked.
MalformedArgs ==
  \/ inv.args.url.t # "string"
  \/ inv.args.url.v.s # "url"
  \/ inv.args.timestamp \notin {JsUndefined, Str(Ts4)}
  \/ inv.args.checkWwwVariant.t \notin {"undefined", "boolean"}

\* C35: a call with a malformed URL, timestamp or parameter ends with an
\* error body, and with no admission, no upstream request and no cache
\* mutation.
MalformedRejectedUpfront ==
  (CheckToolEnded /\ MalformedArgs) => (ErrorBody /\ NothingDone)

\* What the schema rejects is rejected before anything is done.
SchemaFailureRejectedUpfront ==
  (CheckToolEnded /\ ~AvailabilityQueryValid(inv.args)) => (ErrorBody /\ NothingDone)

\* A call whose timestamp is no timestamp went upstream and was answered.
WitnessMalformedTimestampSent ==
  /\ CheckToolEnded
  /\ inv.args.timestamp = Str(MalformedTs)
  /\ ~inv.failed
  /\ ~NothingDone
  /\ \E k \in DOMAIN served : served[k] > 0

\* A call whose url is no URL was rejected.
WitnessBadUrlRejected ==
  /\ CheckToolEnded
  /\ inv.args.url = Str(NotAUrl)
  /\ ErrorBody
  /\ NothingDone
  /\ Len(admissions["cdx"]) = 9

\* ------------------------------------------- SnapshotsApi.getSnapshotContent
\* A Wayback URL: /web/<timestamp>id_/<url>, or a URL of another shape.
WebUrl(timestamp) == [web |-> TRUE, timestamp |-> timestamp]
OtherUrl == [web |-> FALSE, timestamp |-> ""]

\* A page served at finalUrl.
Page(finalUrl) ==
  Resp(200, [parses |-> FALSE, empty |-> FALSE,
             doc |-> [text |-> "<html>", finalUrl |-> finalUrl]])

\* The params of a getSnapshotContent call.
ContentParams(includeRawHtml) ==
  [url |-> "http://example.com", timestamp |-> Timestamps[2],
   extractMetadata |-> "undefined", includeRawHtml |-> includeRawHtml]

\* cache.generateKey('content', {url, timestamp, extractMetadata})
contentKey(params) ==
  generateKey("content",
    <<<<"url", Str(params.url)>>,
      <<"timestamp", Str(params.timestamp)>>,
      <<"extractMetadata", IF params.extractMetadata = "undefined" THEN JsUndefined
                           ELSE Bool(params.extractMetadata = "true")>>>>)

\* getSnapshotContent after withRetry returned result: the timestamp of the
\* final URL when it has one, the response, cache.set unless the raw HTML is
\* included, the response returned.
contentEnd(c, params, result, t) ==
  LET actualTimestamp == IF result.finalUrl.web THEN result.finalUrl.timestamp
                         ELSE params.timestamp
      response ==
        [url |-> params.url, timestamp |-> actualTimestamp, statusCode |-> 200,
         text |-> result.text,
         extracted |-> params.extractMetadata # "false",
         requestedTimestamp |-> IF actualTimestamp # params.timestamp
                                  THEN Str(params.timestamp) ELSE JsUndefined,
         rawHtml |-> IF params.includeRawHtml = "true" THEN Str(result.text)
                     ELSE JsUndefined]
      s == cacheSet(c, contentKey(params), Val(response),
                    TtlOf("SNAPSHOT_CONTENT"), t)
  IN IF params.includeRawHtml = "true" THEN [cache |-> c, out |-> Return(response)]
     ELSE [cache |-> s.cache,
           out |-> IF s.out.tag = "throw" THEN s.out ELSE Return(response)]

\* Mutant: the catch block leaves a not-found marker in the cache.
contentRaisedMarks(c, params, error, t) ==
  [cache |-> cacheSet(c, contentKey(params), JsNull, TtlOf("SNAPSHOT_CONTENT"), t).cache,
   out |-> Throw(error)]

\* The catch block of getSnapshotContent: NOT_FOUND is raised anew with a
\* message of its own (and no status), any other error as it came.
contentRaised(c, params, error, t) ==
  [cache |-> c,
   out |-> IF error.kind = "WaybackApiError" /\ error.code = "NOT_FOUND"
             THEN Throw(WaybackApiError("NOT_FOUND", 0))
           ELSE Throw(error)]

\* The answers of the simulated archive to a snapshot request.
ContentOutcomes == {"page", "moved", "plain", "busy", "missing"}

ContentAnswer(outcome) ==
  IF outcome = "page" THEN Page(WebUrl(Timestamps[2]))
  ELSE IF outcome = "moved" THEN Page(WebUrl(Timestamps[1]))
  ELSE IF outcome = "plain" THEN Page(OtherUrl)
  ELSE IF outcome = "busy" THEN Resp(503, EmptyText)
  ELSE Resp(404, EmptyText)

ContentIdle ==
  [op |-> "contentApi", done |-> FALSE, pc |-> "idle", n |-> 0,
   params |-> ContentParams("undefined"), last |-> "none",
   cache0 |-> NewCache(NoFile), served0 |-> 0, out |-> Return(JsUndefined)]

InitContent ==
  /\ InitRL
  /\ workload = {}
  /\ InitKeyIdle
  /\ InitAvailIdle
  /\ InitCacheReady
  /\ \E script \in [1..MaxScript -> ContentOutcomes] :
       upstream = [k \in {"content"} |->
                     [i \in 1..MaxScript |-> ContentAnswer(script[i])]]
  /\ served = [k \in {"content"} |-> 0]
  /\ rt = RtIdle
  /\ inv = ContentIdle

\* A client calls getSnapshotContent: generateKey, cache.get unless the raw
\* HTML is asked for, the cached value returned if there is one; else on to
\* the await of withRetry(..., 'web/content').  The call keeps which call
\* came before it and how that one ended.
ContentCall(params) ==
  /\ inv.op = "contentApi"
  /\ inv.pc \in {"idle", "returned"}
  /\ inv.n < MaxRetryCalls
  /\ LET g == IF params.includeRawHtml = "true"
                THEN [cache |-> cache, out |-> Return(JsNull)]
              ELSE cacheGet(cache, contentKey(params), now)
         started == [inv EXCEPT !.params = params, !.cache0 = cache,
                                !.served0 = served["content"],
                                !.last = IF inv.n = 0 THEN "none"
                                         ELSE IF inv.params # params THEN "other"
                                         ELSE IF inv.out.tag = "throw" THEN "raised"
                                         ELSE "returned"]
         ended(out) == [started EXCEPT !.pc = "returned", !.done = TRUE,
                                       !.out = out, !.n = @ + 1]
     IN IF g.out.tag = "throw"
          THEN inv' = ended(g.out) /\ cache' = g.cache /\ rt' = rt
        ELSE IF g.out.value.t = "val"
          THEN inv' = ended(Return(g.out.value.v)) /\ cache' = g.cache /\ rt' = rt
        ELSE /\ inv' = [started EXCEPT !.pc = "await", !.done = FALSE]
             /\ cache' = g.cache
             /\ rt' = RtEnter("content", "content", EpWeb)
  /\ UNCHANGED <<now, requests, admissions, acq, workload, av, upstream, served,
                 cres, lastSet, kin, kout>>

\* withRetry ended: the catch block, or the response cached and returned.
ContentResume ==
  /\ inv.op = "contentApi"
  /\ inv.pc = "await"
  /\ rt.pc = "done"
  /\ LET e == IF rt.result.tag = "throw"
                THEN contentRaised(cache, inv.params, rt.result.value, now)
              ELSE contentEnd(cache, inv.params, rt.result.value, now)
     IN /\ inv' = [inv EXCEPT !.pc = "returned", !.done = TRUE, !.out = e.out,
                              !.n = @ + 1]
        /\ cache' = e.cache
  /\ UNCHANGED <<now, requests, admissions, acq, workload, av, upstream, served,
                 rt, cres, lastSet, kin, kout>>

\* Time passes between two calls: the content TTL and a second.
ContentElapse ==
  /\ inv.op = "contentApi"
  /\ inv.pc = "returned"
  /\ now' = now + (CACHE_TTL.SNAPSHOT_CONTENT + 1) * 1000
  /\ inv' = [inv EXCEPT !.pc = "idle"]
  /\ UNCHANGED <<requests, admissions, acq, workload, av, upstream, served, rt,
                 cacheVars, kin, kout>>

NextContent ==
  \/ \E raw \in {"undefined", "true"} : ContentCall(ContentParams(raw))
  \/ ContentResume
  \/ ContentElapse
  \/ RetryAcquire
  \/ RetryLimiterWake
  \/ RetryInvoke
  \/ RetryBackoffDone

SpecContent == InitContent /\ [][NextContent]_vars

\* ------------------------------------ an upstream call that ends by raising
\* The calls that go upstream through withRetry: the CdxApi functions, the
\* availability check of the wayback_check_availability tool, and
\* getSnapshotContent, each on a client of its own.
InitUpstream == InitCdx \/ InitCheck \/ InitContent

NextUpstream == NextCdx \/ NextCheck \/ NextContent

SpecUpstream == InitUpstream /\ [][NextUpstream]_vars

\* withRetry has raised and the function that awaited it is about to go on:
\* a CdxApi function, getSnapshotContent, or the primary lookup of
\* checkAvailabilityInternal.
CdxRaising ==
  inv.op = "cdxApi" /\ inv.pc = "await" /\ rt.pc = "done" /\ rt.result.tag = "throw"

ContentRaising ==
  inv.op = "contentApi" /\ inv.pc = "await" /\ rt.pc = "done"
    /\ rt.result.tag = "throw"

AvailabilityRaising ==
  av.pc = "available" /\ rt.pc = "done" /\ rt.result.tag = "throw"

\* The cache key of the call that awaits withRetry.
RaisingKey ==
  IF CdxRaising THEN inv.call.key
  ELSE IF ContentRaising THEN contentKey(inv.params)
  ELSE cacheKeyOf(av.url, av.timestamp)

\* The call that awaits withRetry consulted the cache before it went upstream:
\* all do but a getSnapshotContent call that asks for the raw HTML.
LookedUp == ~(ContentRaising /\ inv.params.includeRawHtml = "true")

\* C36: when the upstream call of getSnapshots, getSiteUrls,
\* getSnapshotContent or the primary availability lookup raises, the step
\* that takes the exception out of the function leaves the cache as it was,
\* store and document, and, the call having looked its key up before it went
\* upstream, with no entry under that key, so that the next identical call
\* finds nothing to serve and goes upstream again.
RaiseWritesNothing ==
  [][(CdxRaising \/ ContentRaising \/ AvailabilityRaising) =>
       /\ cache' = cache
       /\ LookedUp => RaisingKey \notin DOMAIN cache'.store]_vars

\* getSnapshotContent raised, and the identical call made after it went
\* upstream again and raised as well, the cache still empty.
WitnessRaisedTwice ==
  /\ inv.op = "contentApi"
  /\ inv.pc = "returned"
  /\ inv.n = 2
  /\ inv.last = "raised"
  /\ inv.params.includeRawHtml = "undefined"
  /\ inv.out.tag = "throw"
  /\ served["content"] > inv.served0
  /\ inv.served0 > 0
  /\ cache.store = << >>

\* A getSnapshots call raised after an earlier call had gone upstream and
\* left nothing in the cache.
WitnessSnapshotsRaisedAgain ==
  /\ CdxReturned
  /\ inv.call.fn = "getSnapshots"
  /\ inv.n = 2
  /\ inv.out.tag = "throw"
  /\ inv.served0 > 0
  /\ inv.cache0.store = << >>
  /\ ~NoTraffic
  /\ cache.store = << >>

\* The primary availability lookup raised and nothing was cached.
WitnessLookupRaised ==
  /\ inv.op = "checkTool"
  /\ inv.done
  /\ inv.failed
  /\ Len(av.checks) > 0
  /\ av.checks[1].calls[1].available.tag = "throw"
  /\ cache.store = << >>

\* ------------------------------------------- a CDX fallback that fails
\* The withRetry of checkCdxFallback has raised and the lookup is about to
\* go on.
FallbackRaising == av.pc = "cdx" /\ rt.pc = "done" /\ rt.result.tag = "throw"

\* The check the lookup belongs to went on or ended with result: the
\* alternate lookup entered with it kept as the primary response, or the
\* check returned (it did not raise) what checkAvailability makes of it.
LookupReturned(result) ==
  IF av'.pc = "internal" /\ av'.i = av.i /\ av'.stage = "alternate"
    THEN av.stage = "primary" /\ av'.response = result
  ELSE /\ Len(av'.checks) = Len(av.checks) + 1
       /\ av'.checks[Len(av'.checks)].outcome =
            Return(IF av.stage = "primary" THEN result ELSE av.response)

\* C37: when the CDX fallback of a lookup raises, the lookup goes on:
\* it returns the not-archived response built from the Availability API's
\* answer, and that response is in the cache under the key of the URL and
\* timestamp, stamped now with the availability TTL.
FallbackFailureSwallowed ==
  [][FallbackRaising =>
       LET key == cacheKeyOf(av.url, av.timestamp) IN
         /\ ~av.built.isArchived
         /\ av.built.url = av.url
         /\ LookupReturned(av.built)
         /\ key \in DOMAIN cache'.store
         /\ cache'.store[key] = [data |-> JsonStringify(Val(av.built)),
                                 timestamp |-> now,
                                 ttl |-> CACHE_TTL.AVAILABILITY]]_vars

\* A check whose fallback failed after its retries returned not archived,
\* and the entry of its URL is in the cache.
WitnessFallbackSwallowed ==
  /\ av.pc = "done"
  /\ Len(av.checks) > 0
  /\ av.checks[1].outcome.tag = "return"
  /\ ~av.checks[1].outcome.value.isArchived
  /\ av.checks[1].calls[1].cdx.tag = "throw"
  /\ av.checks[1].calls[1].available.tag = "return"
  /\ cacheKeyOf(av.checks[1].url, av.timestamp) \in DOMAIN cache.store
  /\ served[CdxRequest(av.checks[1].url)] > 1

\* ------------------------------------------ rate-limit categories apart
\* The Map of the limiter with the entry of category c alone.
OnlyCategory(reqs, c) == [x \in DOMAIN reqs \cap {c} |-> reqs[x]]

\* The acquire calls that ran in this step: the one just issued, or the one
\* whose timer fired.
RanNow == {i \in DOMAIN acq' : i \notin DOMAIN acq \/ acq'[i] # acq[i]}

\* C38: a run of acquire on an endpoint of one category leaves the Map entry
\* and the recorded admissions of every other category as they were, and it
\* admits or defers, and sets its timer, exactly as it would were the other
\* categories' entries not there.
CategoriesIndependent ==
  [][\A i \in RanNow :
       LET c == getCategory(acq'[i].endpoint)
           alone == acquire(OnlyCategory(requests, c), acq'[i].endpoint, now)
       IN /\ \A d \in Categories \ {c} :
               /\ admissions'[d] = admissions[d]
               /\ (d \in DOMAIN requests') = (d \in DOMAIN requests)
               /\ RecordOf(requests', d) = RecordOf(requests, d)
          /\ (acq'[i].st = "admitted") = alone.admitted
          /\ acq'[i].st = "sleeping" => acq'[i].wakeAt = alone.wakeAt
          /\ RecordOf(requests', c) = RecordOf(alone.requests, c)]_vars

\* The content window is full and a content call waits, while a call on
\* another category made after it was admitted at once.
WitnessOtherCategoryAdmitted ==
  /\ Len(admissions["content"]) = 5
  /\ \E i, j \in DOMAIN acq :
       /\ i < j
       /\ acq[i].endpoint = EpWeb
       /\ acq[i].st = "sleeping"
       /\ acq[j].endpoint # EpWeb
       /\ acq[j].st = "admitted"
       /\ ~acq[j].slept

\* --------------------------------------------- the bulk-check response
\* The wayback_bulk_check handler after checkBulkAvailability returned
\* results (includeSnapshotCount not asked for): one item per entry of the
\* Map, and the counts.
bulkCheckResponse(urls, results) ==
  LET resultArray == [u \in DOMAIN results |->
                        [url |-> u, isArchived |-> results[u].isArchived,
                         checkedVariant |-> results[u].checkedVariant]]
      archivedCount == Cardinality({u \in DOMAIN resultArray :
                                      resultArray[u].isArchived})
  IN [totalUrls |-> Len(urls),
      archivedCount |-> archivedCount,
      notArchivedCount |-> Len(urls) - archivedCount,
      results |-> resultArray]

\* The counts of response r are those of its entries.
CountsOfEntries(r) ==
  /\ Cardinality(DOMAIN r.results) = r.totalUrls
  /\ r.archivedCount = Cardinality({u \in DOMAIN r.results : r.results[u].isArchived})
  /\ r.notArchivedCount =
       Cardinality({u \in DOMAIN r.results : ~r.results[u].isArchived})
  /\ r.archivedCount + r.notArchivedCount = r.totalUrls

\* C39: in the bulk-check response of any list of URLs, results has
\* totalUrls entries, archivedCount and notArchivedCount count the entries
\* with isArchived true and false, and the two add up to totalUrls.
BulkCountsMatchEntries ==
  av.pc = "done" => CountsOfEntries(bulkCheckResponse(av.urls, av.results))

\* No URL of the list is repeated.
NoRepeatedUrl == \A i, j \in DOMAIN av.urls : av.urls[i] = av.urls[j] => i = j

\* The counts are those of the entries when no URL is repeated.
BulkCountsMatchDistinct ==
  (av.pc = "done" /\ NoRepeatedUrl) =>
    CountsOfEntries(bulkCheckResponse(av.urls, av.results))

\* A list that names one URL twice gave one entry, counted as not archived
\* once although no entry is not archived.
WitnessRepeatedUrlMiscounted ==
  /\ av.pc = "done"
  /\ Len(av.urls) = 2
  /\ av.urls[1] = av.urls[2]
  /\ LET r == bulkCheckResponse(av.urls, av.results) IN
       /\ r.totalUrls = 2
       /\ Cardinality(DOMAIN r.results) = 1
       /\ r.archivedCount = 1
       /\ r.notArchivedCount = 1

====
